---- MODULE Spec2Model ----
(***************************************************************************)
(* Model of the dotset core credential store, session guard and client     *)
(* side RBAC permission cache (src/src/auth.ts).                           *)
(*                                                                         *)
(* The credential file is modelled as the YAML document it holds, the      *)
(* in-memory values as JavaScript values; saveCredentials and              *)
(* loadCredentials go through stringifyYaml / parseYaml, so that what is   *)
(* read back is computed from what was written.                            *)
(***************************************************************************)
EXTENDS Integers, Sequences, FiniteSets, TLC

VARIABLES
    file,       \* ~/.dotset/credentials.yaml: absent, or the document it holds
    now,        \* the wall clock, in milliseconds since the epoch
    last,       \* the last call: its name, its arguments and what it returned or threw
    lastWrite,  \* the last write to the credential file: its name and its argument
    proc        \* the calls of refreshPermissions and ensurePermissions in progress

vars == <<file, now, last, lastWrite, proc>>

-----------------------------------------------------------------------------
(* Bounds of the model *)

\* The clock runs from 0 to MaxNow minutes.
MaxNow == 2

\* Where refreshes are followed, the clock runs from 0 to Horizon minutes: past
\* the refresh interval after a snapshot taken at minute 0.
Horizon == 6

-----------------------------------------------------------------------------
(* JavaScript values *)

Undefined == [t |-> "undefined"]
Null == [t |-> "null"]
Str(s) == [t |-> "string", s |-> s]
Bool(b) == [t |-> "boolean", b |-> b]
Num(n) == [t |-> "number", n |-> n]
Arr(items) == [t |-> "array", items |-> items]
Obj(props) == [t |-> "object", props |-> props]

\* ToBoolean: what `if (v)` and `!v` test.
Truthy(v) ==
    CASE v.t = "undefined" -> FALSE
      [] v.t = "null" -> FALSE
      [] v.t = "boolean" -> v.b
      [] v.t = "number" -> v.n # 0
      [] v.t = "string" -> v.s # ""
      [] OTHER -> TRUE

\* v?.k : undefined on null and undefined, on a primitive, and on a missing key.
Get(v, k) ==
    IF v.t = "object" /\ k \in DOMAIN v.props THEN v.props[k] ELSE Undefined

\* a ?? b
Coalesce(a, b) == IF a.t \in {"undefined", "null"} THEN b ELSE a

\* What a call did: returned a value or threw an error with a message
\* (the message is the sequence of the parts of its template).
Ret(v) == [kind |-> "return", value |-> v]
Throw(e, m) == [kind |-> "throw", error |-> e, message |-> m]

-----------------------------------------------------------------------------
(* Dates *)

MsPerMinute == 60 * 1000

\* The ISO-8601 text of the instants of the model, minute by minute.
IsoTable ==
    << "1970-01-01T00:00:00.000Z", "1970-01-01T00:01:00.000Z",
       "1970-01-01T00:02:00.000Z", "1970-01-01T00:03:00.000Z",
       "1970-01-01T00:04:00.000Z", "1970-01-01T00:05:00.000Z",
       "1970-01-01T00:06:00.000Z", "1970-01-01T00:07:00.000Z",
       "1970-01-01T00:08:00.000Z", "1970-01-01T00:09:00.000Z",
       "1970-01-01T00:10:00.000Z", "1970-01-01T00:11:00.000Z" >>

\* new Date(ms).toISOString()
toISOString(ms) == IsoTable[(ms \div MsPerMinute) + 1]

\* A Date: a time value, or Invalid Date (NaN).
ValidDate(ms) == [valid |-> TRUE, ms |-> ms]
InvalidDate == [valid |-> FALSE, ms |-> 0]

\* new Date(v) for a value read from the file.
NewDate(v) ==
    CASE v.t = "string" ->
            IF \E i \in DOMAIN IsoTable : IsoTable[i] = v.s
            THEN ValidDate(((CHOOSE i \in DOMAIN IsoTable : IsoTable[i] = v.s) - 1)
                           * MsPerMinute)
            ELSE InvalidDate
      [] v.t = "number" -> ValidDate(v.n)
      [] v.t = "boolean" -> ValidDate(IF v.b THEN 1 ELSE 0)
      [] v.t = "null" -> ValidDate(0)
      [] OTHER -> InvalidDate

\* d1 <= d2 on Dates: both are converted to numbers, and NaN compares false.
DateLeq(d1, d2) == d1.valid /\ d2.valid /\ d1.ms <= d2.ms

-----------------------------------------------------------------------------
(* YAML documents *)

\* The nodes of a document: plain and double-quoted scalars, block sequences
\* and mappings, and a text that is no YAML at all.
Plain(text) == [y |-> "plain", text |-> text]
Quoted(text) == [y |-> "quoted", text |-> text]
YSeq(items) == [y |-> "seq", items |-> items]
YMap(pairs) == [y |-> "map", pairs |-> pairs]
Unparsable == [y |-> "invalid"]

\* The plain scalars the core schema reads as numbers.
Numerals == ("0" :> 0) @@ ("1234" :> 1234)

\* The plain scalars the core schema reads as null and as booleans.
NullWords == {"", "~", "null"}
BoolWords == {"true", "false"}

\* Texts that are no plain scalar: indicators at the start (alias, tag, ...).
IndicatorWords == {"*", "&anchor", "!tag"}

\* The value the core schema gives a plain scalar.
ResolvePlain(text) ==
    IF text \in NullWords THEN Null
    ELSE IF text \in BoolWords THEN Bool(text = "true")
    ELSE IF text \in DOMAIN Numerals THEN Num(Numerals[text])
    ELSE Str(text)

\* parse(content) of the yaml package, for a document that parses.
RECURSIVE parseYaml(_)
parseYaml(node) ==
    CASE node.y = "plain" -> ResolvePlain(node.text)
      [] node.y = "quoted" -> Str(node.text)
      [] node.y = "seq" ->
            Arr([i \in DOMAIN node.items |-> parseYaml(node.items[i])])
      [] node.y = "map" ->
            Obj([k \in DOMAIN node.pairs |-> parseYaml(node.pairs[k])])

\* A string is written plain unless it would not be read back as that string.
NeedsQuote(s) ==
    s \in NullWords \cup BoolWords \cup DOMAIN Numerals \cup IndicatorWords

\* stringify(value) of the yaml package: undefined properties are left out.
RECURSIVE stringifyYaml(_)
stringifyYaml(v) ==
    CASE v.t = "string" -> IF NeedsQuote(v.s) THEN Quoted(v.s) ELSE Plain(v.s)
      [] v.t = "boolean" -> Plain(IF v.b THEN "true" ELSE "false")
      [] v.t = "number" ->
            Plain(CHOOSE s \in DOMAIN Numerals : Numerals[s] = v.n)
      [] v.t = "array" ->
            YSeq([i \in DOMAIN v.items |-> stringifyYaml(v.items[i])])
      [] v.t = "object" ->
            YMap([k \in {j \in DOMAIN v.props : v.props[j].t # "undefined"}
                    |-> stringifyYaml(v.props[k])])
      [] OTHER -> Plain("null")

-----------------------------------------------------------------------------
(* Constants of auth.ts *)

\* How often to refresh permissions (5 minutes).
PERMISSIONS_REFRESH_INTERVAL_MS == 5 * 60 * 1000

-----------------------------------------------------------------------------
(* Credential store *)

\* The ~/.dotset directory and the credentials file in it.
NoStore == [dir |-> FALSE, exists |-> FALSE]
EmptyDir == [dir |-> TRUE, exists |-> FALSE]
FileWith(doc) == [dir |-> TRUE, exists |-> TRUE, content |-> doc]

\* parseYaml(content): throws on a text that is no YAML.
parseContent(content) ==
    IF content.y = "invalid"
    THEN Throw("YAMLParseError", <<Str("the document does not parse")>>)
    ELSE Ret(parseYaml(content))

\* Mutant of loadCredentials: no try / catch around the parse.
loadCredentials_NoCatch(f) ==
    IF ~f.exists THEN Ret(Null) ELSE parseContent(f.content)

\* loadCredentials(): null when the file is missing, and null when reading or
\* parsing it throws (try / catch).
loadCredentials(f) ==
    IF ~f.exists THEN Ret(Null)
    ELSE LET parsed == parseContent(f.content) IN
         IF parsed.kind = "throw" THEN Ret(Null) ELSE parsed

\* Mutant of saveCredentials: fields with a falsy value are not written.
saveCredentials_SkipsFalsy(f, credentials) ==
    FileWith(stringifyYaml(
        Obj([k \in {j \in DOMAIN credentials.props : Truthy(credentials.props[j])}
               |-> credentials.props[k]])))

\* saveCredentials(credentials): the directory is created when missing and the
\* file is overwritten with the serialized record.
saveCredentials(f, credentials) == FileWith(stringifyYaml(credentials))

\* unlinkSync(credPath): throws when there is no such file.
unlinkSync(f) ==
    IF f.exists
    THEN [file |-> [dir |-> f.dir, exists |-> FALSE], result |-> Ret(Undefined)]
    ELSE [file |-> f, result |-> Throw("Error", <<Str("ENOENT: no such file or directory")>>)]

\* Mutant of clearCredentials: the existsSync guard is left out.
clearCredentials_NoGuard(f) == unlinkSync(f)

\* clearCredentials(): unlinks the file when it exists; the file after the call
\* and what the call did.
clearCredentials(f) ==
    IF f.exists THEN unlinkSync(f) ELSE [file |-> f, result |-> Ret(Undefined)]

-----------------------------------------------------------------------------
(* Session guard *)

\* The messages of requireAuth (the backquotes around the command are left out).
NotLoggedInMessage == <<Str("Not logged in. Run dotset login to authenticate.")>>
SessionExpiredMessage ==
    <<Str("Session expired. Run dotset login to re-authenticate.")>>

\* Mutant of IsExpired: the comparison is strict (expiry < now).
IsExpired_Exclusive(creds, t) ==
    /\ Truthy(Get(creds, "expiresAt"))
    /\ DateLeq(NewDate(Get(creds, "expiresAt")), ValidDate(t))
    /\ NewDate(Get(creds, "expiresAt")).ms # t

\* if (creds.expiresAt) { if (new Date(creds.expiresAt) <= new Date()) ... }
IsExpired(creds, t) ==
    /\ Truthy(Get(creds, "expiresAt"))
    /\ DateLeq(NewDate(Get(creds, "expiresAt")), ValidDate(t))

isAuthenticated(f, t) ==
    LET loaded == loadCredentials(f) IN
    IF loaded.kind = "throw" THEN loaded
    ELSE IF ~Truthy(Get(loaded.value, "accessToken")) THEN Ret(Bool(FALSE))
    ELSE IF IsExpired(loaded.value, t) THEN Ret(Bool(FALSE))
    ELSE Ret(Bool(TRUE))

\* Mutant of getAccessToken: a token is still handed out at the expiry instant.
getAccessToken_ExpiryExclusive(f, t) ==
    LET loaded == loadCredentials(f) IN
    IF loaded.kind = "throw" THEN loaded
    ELSE IF ~Truthy(Get(loaded.value, "accessToken")) THEN Ret(Null)
    ELSE IF IsExpired_Exclusive(loaded.value, t) THEN Ret(Null)
    ELSE Ret(Get(loaded.value, "accessToken"))

getAccessToken(f, t) ==
    LET loaded == loadCredentials(f) IN
    IF loaded.kind = "throw" THEN loaded
    ELSE IF ~Truthy(Get(loaded.value, "accessToken")) THEN Ret(Null)
    ELSE IF IsExpired(loaded.value, t) THEN Ret(Null)
    ELSE Ret(Get(loaded.value, "accessToken"))

\* Mutant of requireAuth: an expired session is reported as not logged in.
requireAuth_OneMessage(f, t) ==
    LET loaded == loadCredentials(f) IN
    IF loaded.kind = "throw" THEN loaded
    ELSE IF ~Truthy(Get(loaded.value, "accessToken")) \/ IsExpired(loaded.value, t)
    THEN Throw("AuthRequiredError", NotLoggedInMessage)
    ELSE loaded

requireAuth(f, t) ==
    LET loaded == loadCredentials(f) IN
    IF loaded.kind = "throw" THEN loaded
    ELSE IF ~Truthy(Get(loaded.value, "accessToken"))
    THEN Throw("AuthRequiredError", NotLoggedInMessage)
    ELSE IF IsExpired(loaded.value, t)
    THEN Throw("AuthRequiredError", SessionExpiredMessage)
    ELSE loaded

-----------------------------------------------------------------------------
(* Permission cache *)

TypeErrorOf(what) == Throw("TypeError", <<Str(what)>>)

\* Mutant of getProjectPermission: the predicate of find accepts every entry, so
\* the first entry of the list is returned whatever its projectId.
getProjectPermission_FirstEntry(f, projectId) ==
    LET loaded == loadCredentials(f) IN
    IF loaded.kind = "throw" THEN loaded
    ELSE
    LET perms == Get(loaded.value, "permissions")
    IN  IF ~Truthy(perms) THEN Ret(Null)
        ELSE IF perms.t # "array"
        THEN TypeErrorOf("creds.permissions.find is not a function")
        ELSE IF perms.items = <<>> THEN Ret(Null)
        ELSE IF perms.items[1].t \in {"null", "undefined"}
        THEN TypeErrorOf("Cannot read properties of null")
        ELSE Ret(perms.items[1])

\* creds.permissions.find(p => p.projectId === projectId) ?? null
\* The scan stops at the first match, or throws at an element that is null or
\* undefined; a truthy permissions value that is no array has no find.
getProjectPermission(f, projectId) ==
    LET loaded == loadCredentials(f) IN
    IF loaded.kind = "throw" THEN loaded
    ELSE
    LET perms == Get(loaded.value, "permissions")
    IN  IF ~Truthy(perms) THEN Ret(Null)
        ELSE IF perms.t # "array"
        THEN TypeErrorOf("creds.permissions.find is not a function")
        ELSE LET stops == {i \in DOMAIN perms.items :
                              \/ perms.items[i].t \in {"null", "undefined"}
                              \/ Get(perms.items[i], "projectId") = Str(projectId)}
             IN  IF stops = {} THEN Ret(Null)
                 ELSE LET i == CHOOSE j \in stops : \A k \in stops : j <= k
                      IN  IF perms.items[i].t \in {"null", "undefined"}
                          THEN TypeErrorOf("Cannot read properties of null")
                          ELSE Ret(perms.items[i])

\* Pairs <<x, s>> of the strings of the model with x a proper substring of s.
ProperSubstrings == {<<"secret", "secrets">>, <<"", "secrets">>, <<"", "*">>}

\* list.includes(x): on an array, strict equality with some element; on a
\* string, the substring test; on anything else a TypeError.
Includes(list, x) ==
    CASE list.t = "array" -> Ret(Bool(\E i \in DOMAIN list.items : list.items[i] = Str(x)))
      [] list.t = "string" -> Ret(Bool(x = list.s \/ <<x, list.s>> \in ProperSubstrings))
      [] list.t \in {"undefined", "null"} ->
            TypeErrorOf("Cannot read properties of undefined (reading 'includes')")
      [] OTHER -> TypeErrorOf("perm.allowedScopes.includes is not a function")

\* Mutant of canAccessScope: no cached permission denies.
canAccessScope_FailClosed(f, projectId, scope) ==
    LET found == getProjectPermission(f, projectId) IN
    IF found.kind = "throw" THEN found
    ELSE LET perm == found.value IN
         IF ~Truthy(perm) THEN Ret(Bool(FALSE))
         ELSE IF Get(perm, "role") = Str("admin") THEN Ret(Bool(TRUE))
         ELSE LET named == Includes(Get(perm, "allowedScopes"), scope) IN
              IF named.kind = "throw" THEN named
              ELSE IF named.value.b THEN named
              ELSE Includes(Get(perm, "allowedScopes"), "*")

\* Mutant of canAccessScope: members pass like admins.
canAccessScope_MemberAll(f, projectId, scope) ==
    LET found == getProjectPermission(f, projectId) IN
    IF found.kind = "throw" THEN found
    ELSE LET perm == found.value IN
         IF ~Truthy(perm) THEN Ret(Bool(TRUE))
         ELSE IF Get(perm, "role") \in {Str("admin"), Str("member")} THEN Ret(Bool(TRUE))
         ELSE LET named == Includes(Get(perm, "allowedScopes"), scope) IN
              IF named.kind = "throw" THEN named
              ELSE IF named.value.b THEN named
              ELSE Includes(Get(perm, "allowedScopes"), "*")

canAccessScope(f, projectId, scope) ==
    LET found == getProjectPermission(f, projectId) IN
    IF found.kind = "throw" THEN found
    ELSE LET perm == found.value IN
         IF ~Truthy(perm) THEN Ret(Bool(TRUE))
         ELSE IF Get(perm, "role") = Str("admin") THEN Ret(Bool(TRUE))
         ELSE LET named == Includes(Get(perm, "allowedScopes"), scope) IN
              IF named.kind = "throw" THEN named
              ELSE IF named.value.b THEN named
              ELSE Includes(Get(perm, "allowedScopes"), "*")

\* `${resource}:${action}` for the resources and actions of the model.
PermissionKey(resource, action) ==
    CASE resource = "secrets" /\ action = "write" -> "secrets:write"
      [] resource = "secrets" /\ action = "read" -> "secrets:read"
      [] resource = "deploy" /\ action = "write" -> "deploy:write"
      [] resource = "deploy" /\ action = "read" -> "deploy:read"

\* Mutant of hasPermission: admins are looked up like everyone else.
hasPermission_NoAdminBypass(f, projectId, resource, action) ==
    LET found == getProjectPermission(f, projectId) IN
    IF found.kind = "throw" THEN found
    ELSE LET perm == found.value IN
         IF ~Truthy(perm) THEN Ret(Bool(TRUE))
         ELSE LET custom == Get(perm, "customPermissions") IN
              IF custom.t \in {"undefined", "null"}
              THEN TypeErrorOf("Cannot read properties of undefined")
              ELSE Ret(Bool(Get(custom, PermissionKey(resource, action)) = Bool(TRUE)))

\* Mutant of hasPermission: a key that is present grants, whatever it maps to.
hasPermission_KeyPresent(f, projectId, resource, action) ==
    LET found == getProjectPermission(f, projectId) IN
    IF found.kind = "throw" THEN found
    ELSE LET perm == found.value IN
         IF ~Truthy(perm) THEN Ret(Bool(TRUE))
         ELSE IF Get(perm, "role") = Str("admin") THEN Ret(Bool(TRUE))
         ELSE LET custom == Get(perm, "customPermissions") IN
              IF custom.t \in {"undefined", "null"}
              THEN TypeErrorOf("Cannot read properties of undefined")
              ELSE Ret(Bool(Get(custom, PermissionKey(resource, action)) # Undefined))

\* perm.customPermissions[key] === true
hasPermission(f, projectId, resource, action) ==
    LET found == getProjectPermission(f, projectId) IN
    IF found.kind = "throw" THEN found
    ELSE LET perm == found.value IN
         IF ~Truthy(perm) THEN Ret(Bool(TRUE))
         ELSE IF Get(perm, "role") = Str("admin") THEN Ret(Bool(TRUE))
         ELSE LET custom == Get(perm, "customPermissions") IN
              IF custom.t \in {"undefined", "null"}
              THEN TypeErrorOf("Cannot read properties of undefined")
              ELSE Ret(Bool(Get(custom, PermissionKey(resource, action)) = Bool(TRUE)))

\* Mutant of canWrite: only admins may write.
canWrite_AdminOnly(f, projectId) ==
    LET found == getProjectPermission(f, projectId) IN
    IF found.kind = "throw" THEN found
    ELSE LET perm == found.value IN
         IF ~Truthy(perm) THEN Ret(Bool(TRUE))
         ELSE Ret(Bool(Get(perm, "role") = Str("admin")))

canWrite(f, projectId) ==
    LET found == getProjectPermission(f, projectId) IN
    IF found.kind = "throw" THEN found
    ELSE LET perm == found.value IN
         IF ~Truthy(perm) THEN Ret(Bool(TRUE))
         ELSE Ret(Bool(Get(perm, "role") = Str("admin") \/ Get(perm, "role") = Str("member")))

getRole(f, projectId) ==
    LET found == getProjectPermission(f, projectId) IN
    IF found.kind = "throw" THEN found
    ELSE Ret(Coalesce(Get(found.value, "role"), Null))

-----------------------------------------------------------------------------
(* Authorization gate *)

\* Mutant of DisplayName: the projectId is shown whatever the entry holds.
DisplayName_IdOnly(f, projectId) ==
    LET found == getProjectPermission(f, projectId) IN
    IF found.kind = "throw" THEN found
    ELSE Ret(Str(projectId))

\* perm?.projectName ?? projectId
DisplayName(f, projectId) ==
    LET found == getProjectPermission(f, projectId) IN
    IF found.kind = "throw" THEN found
    ELSE Ret(Coalesce(Get(found.value, "projectName"), Str(projectId)))

requireScopeAccess(f, projectId, scope) ==
    LET allowed == canAccessScope(f, projectId, scope) IN
    IF allowed.kind = "throw" THEN allowed
    ELSE IF allowed.value.b THEN Ret(Undefined)
    ELSE LET name == DisplayName(f, projectId) IN
         IF name.kind = "throw" THEN name
         ELSE Throw("PermissionDeniedError",
                    << Str("Access Denied: Your role does not have permission to access the ["),
                       Str(scope), Str("] scope in project \""), name.value, Str("\".") >>)

\* Mutant of requirePermission: the message names the resource without the action.
requirePermission_ResourceOnly(f, projectId, resource, action) ==
    LET allowed == hasPermission(f, projectId, resource, action) IN
    IF allowed.kind = "throw" THEN allowed
    ELSE IF allowed.value.b THEN Ret(Undefined)
    ELSE LET name == DisplayName(f, projectId) IN
         IF name.kind = "throw" THEN name
         ELSE Throw("PermissionDeniedError",
                    << Str("Access Denied: Your role does not have permission for ["),
                       Str(resource), Str("] in project \""),
                       name.value, Str("\".") >>)

requirePermission(f, projectId, resource, action) ==
    LET allowed == hasPermission(f, projectId, resource, action) IN
    IF allowed.kind = "throw" THEN allowed
    ELSE IF allowed.value.b THEN Ret(Undefined)
    ELSE LET name == DisplayName(f, projectId) IN
         IF name.kind = "throw" THEN name
         ELSE Throw("PermissionDeniedError",
                    << Str("Access Denied: Your role does not have permission for ["),
                       Str(PermissionKey(resource, action)), Str("] in project \""),
                       name.value, Str("\".") >>)

-----------------------------------------------------------------------------
(* Staleness and update of the permission snapshot *)

\* Mutant of permissionsNeedRefresh: the snapshot is stale from the interval on.
permissionsNeedRefresh_Inclusive(f, t) ==
    LET loaded == loadCredentials(f) IN
    IF loaded.kind = "throw" THEN loaded
    ELSE
    LET stamp == Get(loaded.value, "permissionsUpdatedAt")
    IN  IF ~Truthy(stamp) THEN Ret(Bool(TRUE))
        ELSE LET lastUpdate == NewDate(stamp) IN
             Ret(Bool(lastUpdate.valid
                      /\ t - lastUpdate.ms >= PERMISSIONS_REFRESH_INTERVAL_MS))

\* Date.now() - lastUpdate.getTime() > PERMISSIONS_REFRESH_INTERVAL_MS
\* (false when lastUpdate is an Invalid Date: NaN compares false).
permissionsNeedRefresh(f, t) ==
    LET loaded == loadCredentials(f) IN
    IF loaded.kind = "throw" THEN loaded
    ELSE
    LET stamp == Get(loaded.value, "permissionsUpdatedAt")
    IN  IF ~Truthy(stamp) THEN Ret(Bool(TRUE))
        ELSE LET lastUpdate == NewDate(stamp) IN
             Ret(Bool(lastUpdate.valid
                      /\ t - lastUpdate.ms > PERMISSIONS_REFRESH_INTERVAL_MS))

\* Mutant of updatePermissions: the record written back keeps the token only.
updatePermissions_TokenOnly(f, t, permissions) ==
    LET loaded == loadCredentials(f) IN
    IF loaded.kind = "throw" THEN [file |-> f, result |-> loaded]
    ELSE IF ~Truthy(loaded.value) THEN [file |-> f, result |-> Ret(Undefined)]
    ELSE IF loaded.value.t # "object" THEN [file |-> f, result |-> Ret(Undefined)]
    ELSE [file |-> saveCredentials(f,
                     Obj([k \in (DOMAIN loaded.value.props \cap {"accessToken"})
                                   \cup {"permissions", "permissionsUpdatedAt"} |->
                            IF k = "permissions" THEN permissions
                            ELSE IF k = "permissionsUpdatedAt" THEN Str(toISOString(t))
                            ELSE loaded.value.props[k]])),
          result |-> Ret(Undefined)]

\* Mutant of updatePermissions: the list is added to the stored one.
updatePermissions_Merges(f, t, permissions) ==
    LET loaded == loadCredentials(f) IN
    IF loaded.kind = "throw" THEN [file |-> f, result |-> loaded]
    ELSE
    LET creds == loaded.value IN
    IF ~Truthy(creds) THEN [file |-> f, result |-> Ret(Undefined)]
    ELSE IF creds.t = "object"
    THEN LET old == Get(creds, "permissions")
             merged == IF old.t = "array" /\ permissions.t = "array"
                       THEN Arr(old.items \o permissions.items)
                       ELSE permissions
         IN
         [file |-> saveCredentials(f,
                     Obj([k \in DOMAIN creds.props \cup {"permissions", "permissionsUpdatedAt"} |->
                            IF k = "permissions" THEN merged
                            ELSE IF k = "permissionsUpdatedAt" THEN Str(toISOString(t))
                            ELSE creds.props[k]])),
          result |-> Ret(Undefined)]
    ELSE IF creds.t = "array"
    THEN [file |-> saveCredentials(f, creds), result |-> Ret(Undefined)]
    ELSE [file |-> f, result |-> TypeErrorOf("Cannot create property 'permissions'")]

\* Mutant of updatePermissions: the list is stored without the time.
updatePermissions_NoStamp(f, t, permissions) ==
    LET loaded == loadCredentials(f) IN
    IF loaded.kind = "throw" THEN [file |-> f, result |-> loaded]
    ELSE
    LET creds == loaded.value IN
    IF ~Truthy(creds) THEN [file |-> f, result |-> Ret(Undefined)]
    ELSE IF creds.t = "object"
    THEN [file |-> saveCredentials(f,
                     Obj([k \in DOMAIN creds.props \cup {"permissions"} |->
                            IF k = "permissions" THEN permissions ELSE creds.props[k]])),
          result |-> Ret(Undefined)]
    ELSE IF creds.t = "array"
    THEN [file |-> saveCredentials(f, creds), result |-> Ret(Undefined)]
    ELSE [file |-> f, result |-> TypeErrorOf("Cannot create property 'permissions'")]

\* updatePermissions(permissions): the file after the call and what the call did.
\* Nothing is written when no record loads; the two fields are set on the loaded
\* object and the whole object is saved. Setting a property on a primitive
\* throws in a module (strict mode); on an array it is not serialized.
updatePermissions(f, t, permissions) ==
    LET loaded == loadCredentials(f) IN
    IF loaded.kind = "throw" THEN [file |-> f, result |-> loaded]
    ELSE
    LET creds == loaded.value IN
    IF ~Truthy(creds) THEN [file |-> f, result |-> Ret(Undefined)]
    ELSE IF creds.t = "object"
    THEN [file |-> saveCredentials(f,
                     Obj([k \in DOMAIN creds.props \cup {"permissions", "permissionsUpdatedAt"} |->
                            IF k = "permissions" THEN permissions
                            ELSE IF k = "permissionsUpdatedAt" THEN Str(toISOString(t))
                            ELSE creds.props[k]])),
          result |-> Ret(Undefined)]
    ELSE IF creds.t = "array"
    THEN [file |-> saveCredentials(f, creds), result |-> Ret(Undefined)]
    ELSE [file |-> f, result |-> TypeErrorOf("Cannot create property 'permissions'")]

-----------------------------------------------------------------------------
(* Refresh of the permission snapshot from the server *)

DEFAULT_API_URL == "https://api.dotsetlabs.com"

\* Mutant of getApiUrl: the environment is not looked at.
getApiUrl_DefaultOnly(env) == Str(DEFAULT_API_URL)

\* process.env.DOTSET_API_URL ?? DEFAULT_API_URL
getApiUrl(env) == Coalesce(env, Str(DEFAULT_API_URL))

\* What fetch settles to: a rejection (no connection, no name resolution), or a
\* response with a status and a body; response.json() rejects on a body that
\* is no JSON.
Rejected == [kind |-> "rejected"]
Response(status, body) ==
    [kind |-> "response", status |-> status, ok |-> (status >= 200 /\ status <= 299),
     body |-> body]
Json(value) == [json |-> TRUE, value |-> value]
NotJson == [json |-> FALSE]

EmptyList == Arr(<< >>)

\* Mutant of refreshBegin: the request is sent whatever the token.
refreshBegin_NoTokenCheck(f, t, env) ==
    LET token == getAccessToken(f, t) IN
    IF token.kind = "throw" THEN [done |-> TRUE, result |-> token]
    ELSE [done |-> FALSE,
          request |-> [url |-> <<getApiUrl(env), Str("/auth/permissions")>>,
                       headers |-> [Authorization |-> <<Str("Bearer "), token.value>>]]]

\* refreshPermissions up to the await of fetch: without a token the call is
\* over, otherwise the request is on its way.
refreshBegin(f, t, env) ==
    LET token == getAccessToken(f, t) IN
    IF token.kind = "throw" THEN [done |-> TRUE, result |-> token]
    ELSE IF ~Truthy(token.value) THEN [done |-> TRUE, result |-> Ret(EmptyList)]
    ELSE [done |-> FALSE,
          request |-> [url |-> <<getApiUrl(env), Str("/auth/permissions")>>,
                       headers |-> [Authorization |-> <<Str("Bearer "), token.value>>]]]

NotUpdated == [called |-> FALSE]

\* Mutant of refreshFinish: without the catch, the rejection of fetch is the
\* rejection of the call.
refreshFinish_NoCatch(f, t, response) ==
    IF response.kind = "rejected"
    THEN [file |-> f, result |-> Throw("TypeError", <<Str("fetch failed")>>),
          update |-> NotUpdated]
    ELSE IF ~response.ok \/ ~response.body.json
    THEN [file |-> f, result |-> Ret(EmptyList), update |-> NotUpdated]
    ELSE
    LET data == response.body.value IN
    IF data.t \in {"undefined", "null"}
    THEN [file |-> f, result |-> TypeErrorOf("Cannot read properties of null"),
          update |-> NotUpdated]
    ELSE
    LET permissions == Coalesce(Get(data, "permissions"), EmptyList)
        done == updatePermissions(f, t, permissions)
    IN  [file |-> done.file,
         result |-> IF done.result.kind = "throw" THEN done.result ELSE Ret(permissions),
         update |-> [called |-> TRUE, arg |-> permissions]]

\* Mutant of refreshFinish: a failure sets the time of the snapshot, so that
\* the next calls hold off for the interval.
refreshFinish_StampsOnFailure(f, t, response) ==
    IF response.kind = "rejected" \/ ~response.ok
    THEN LET loaded == loadCredentials(f) IN
         [file |-> IF loaded.kind = "return" /\ loaded.value.t = "object"
                   THEN updatePermissions(f, t, Coalesce(Get(loaded.value, "permissions"),
                                                         EmptyList)).file
                   ELSE f,
          result |-> Ret(EmptyList), update |-> NotUpdated]
    ELSE IF ~response.body.json
    THEN [file |-> f, result |-> Ret(EmptyList), update |-> NotUpdated]
    ELSE
    LET data == response.body.value IN
    IF data.t \in {"undefined", "null"}
    THEN [file |-> f, result |-> Ret(EmptyList), update |-> NotUpdated]
    ELSE
    LET permissions == Coalesce(Get(data, "permissions"), EmptyList)
        done == updatePermissions(f, t, permissions)
    IN  [file |-> done.file,
         result |-> IF done.result.kind = "throw" THEN Ret(EmptyList) ELSE Ret(permissions),
         update |-> [called |-> TRUE, arg |-> permissions]]

\* Mutant of refreshFinish: a response that is not ok empties the snapshot.
refreshFinish_ClearsOnFailure(f, t, response) ==
    IF response.kind = "rejected"
    THEN [file |-> f, result |-> Ret(EmptyList), update |-> NotUpdated]
    ELSE IF ~response.ok
    THEN [file |-> updatePermissions(f, t, EmptyList).file, result |-> Ret(EmptyList),
          update |-> [called |-> TRUE, arg |-> EmptyList]]
    ELSE IF ~response.body.json
    THEN [file |-> f, result |-> Ret(EmptyList), update |-> NotUpdated]
    ELSE
    LET data == response.body.value IN
    IF data.t \in {"undefined", "null"}
    THEN [file |-> f, result |-> Ret(EmptyList), update |-> NotUpdated]
    ELSE
    LET permissions == Coalesce(Get(data, "permissions"), EmptyList)
        done == updatePermissions(f, t, permissions)
    IN  [file |-> done.file,
         result |-> IF done.result.kind = "throw" THEN Ret(EmptyList) ELSE Ret(permissions),
         update |-> [called |-> TRUE, arg |-> permissions]]

\* refreshPermissions from the settling of fetch on: the file after the call,
\* what the call returns, and whether updatePermissions was called. Everything
\* thrown inside the try block (the rejection of fetch, of response.json(), a
\* TypeError on a null body, an error of updatePermissions) ends in `return []`.
refreshFinish(f, t, response) ==
    IF response.kind = "rejected"
    THEN [file |-> f, result |-> Ret(EmptyList), update |-> NotUpdated]
    ELSE IF ~response.ok
    THEN [file |-> f, result |-> Ret(EmptyList), update |-> NotUpdated]
    ELSE IF ~response.body.json
    THEN [file |-> f, result |-> Ret(EmptyList), update |-> NotUpdated]
    ELSE
    LET data == response.body.value IN
    IF data.t \in {"undefined", "null"}
    THEN [file |-> f, result |-> Ret(EmptyList), update |-> NotUpdated]
    ELSE
    LET permissions == Coalesce(Get(data, "permissions"), EmptyList)
        done == updatePermissions(f, t, permissions)
    IN  [file |-> done.file,
         result |-> IF done.result.kind = "throw" THEN Ret(EmptyList) ELSE Ret(permissions),
         update |-> [called |-> TRUE, arg |-> permissions]]

\* Mutant of refreshRespond: with no record to update, an empty one is made up
\* and written back.
refreshRespond_Creates(f, response) ==
    IF response.kind = "rejected" THEN [done |-> TRUE, result |-> Ret(EmptyList)]
    ELSE IF ~response.ok THEN [done |-> TRUE, result |-> Ret(EmptyList)]
    ELSE IF ~response.body.json THEN [done |-> TRUE, result |-> Ret(EmptyList)]
    ELSE
    LET data == response.body.value IN
    IF data.t \in {"undefined", "null"} THEN [done |-> TRUE, result |-> Ret(EmptyList)]
    ELSE
    LET permissions == Coalesce(Get(data, "permissions"), EmptyList)
        loaded == loadCredentials(f)
    IN  IF loaded.kind = "throw" THEN [done |-> TRUE, result |-> Ret(EmptyList)]
        ELSE IF ~Truthy(loaded.value)
        THEN [done |-> FALSE, creds |-> Obj(<<>>), permissions |-> permissions]
        ELSE IF loaded.value.t \notin {"object", "array"}
        THEN [done |-> TRUE, result |-> Ret(EmptyList)]
        ELSE [done |-> FALSE, creds |-> loaded.value, permissions |-> permissions]

\* refreshPermissions from the settling of fetch up to the loadCredentials of
\* updatePermissions: the call is over (a failure, no record to update, an
\* error caught), or a record is loaded and about to be written back.
refreshRespond(f, response) ==
    IF response.kind = "rejected" THEN [done |-> TRUE, result |-> Ret(EmptyList)]
    ELSE IF ~response.ok THEN [done |-> TRUE, result |-> Ret(EmptyList)]
    ELSE IF ~response.body.json THEN [done |-> TRUE, result |-> Ret(EmptyList)]
    ELSE
    LET data == response.body.value IN
    IF data.t \in {"undefined", "null"} THEN [done |-> TRUE, result |-> Ret(EmptyList)]
    ELSE
    LET permissions == Coalesce(Get(data, "permissions"), EmptyList)
        loaded == loadCredentials(f)
    IN  IF loaded.kind = "throw" THEN [done |-> TRUE, result |-> Ret(EmptyList)]
        ELSE IF ~Truthy(loaded.value) THEN [done |-> TRUE, result |-> Ret(permissions)]
        ELSE IF loaded.value.t \notin {"object", "array"}
        THEN [done |-> TRUE, result |-> Ret(EmptyList)]
        ELSE [done |-> FALSE, creds |-> loaded.value, permissions |-> permissions]

\* Mutant of updatePermissionsSave: of the record loaded, the token alone is
\* written back.
updatePermissionsSave_TokenOnly(f, t, creds, permissions) ==
    IF creds.t = "object"
    THEN saveCredentials(f,
           Obj([k \in (DOMAIN creds.props \cap {"accessToken"})
                         \cup {"permissions", "permissionsUpdatedAt"} |->
                  IF k = "permissions" THEN permissions
                  ELSE IF k = "permissionsUpdatedAt" THEN Str(toISOString(t))
                  ELSE creds.props[k]]))
    ELSE saveCredentials(f, creds)

\* Mutant of updatePermissionsSave: the stamp is a minute ahead of the clock.
updatePermissionsSave_StampsAhead(f, t, creds, permissions) ==
    IF creds.t = "object"
    THEN saveCredentials(f,
           Obj([k \in DOMAIN creds.props \cup {"permissions", "permissionsUpdatedAt"} |->
                  IF k = "permissions" THEN permissions
                  ELSE IF k = "permissionsUpdatedAt" THEN Str(toISOString(t + MsPerMinute))
                  ELSE creds.props[k]]))
    ELSE saveCredentials(f, creds)

\* Mutant of updatePermissionsSave: the record is read again before it is
\* written, so that the write goes onto what the file holds.
updatePermissionsSave_Reloads(f, t, creds, permissions) ==
    updatePermissions(f, t, permissions).file

\* The rest of updatePermissions: the two fields are set on the record that was
\* loaded and the record is saved, whatever the file holds by now.
updatePermissionsSave(f, t, creds, permissions) ==
    IF creds.t = "object"
    THEN saveCredentials(f,
           Obj([k \in DOMAIN creds.props \cup {"permissions", "permissionsUpdatedAt"} |->
                  IF k = "permissions" THEN permissions
                  ELSE IF k = "permissionsUpdatedAt" THEN Str(toISOString(t))
                  ELSE creds.props[k]]))
    ELSE saveCredentials(f, creds)

\* ensurePermissions up to its first return: `if (!creds?.accessToken) return []`.
ensureBegin(f) ==
    LET loaded == loadCredentials(f) IN
    IF loaded.kind = "throw" THEN [done |-> TRUE, result |-> loaded]
    ELSE IF ~Truthy(Get(loaded.value, "accessToken"))
    THEN [done |-> TRUE, result |-> Ret(EmptyList)]
    ELSE [done |-> FALSE, creds |-> loaded.value]

\* Mutant of ensureDecide: every call refreshes.
ensureDecide_AlwaysRefresh(f, t, creds) ==
    LET need == permissionsNeedRefresh(f, t) IN
    IF need.kind = "throw" THEN [done |-> TRUE, result |-> need]
    ELSE [done |-> FALSE]

\* Mutant of ensureDecide: the cached list is answered however old it is.
ensureDecide_NeverRefresh(f, t, creds) ==
    LET need == permissionsNeedRefresh(f, t) IN
    IF need.kind = "throw" THEN [done |-> TRUE, result |-> need]
    ELSE [done |-> TRUE, result |-> Ret(Coalesce(Get(creds, "permissions"), EmptyList))]

\* ensurePermissions after it: refresh when the snapshot is stale, otherwise
\* answer `creds.permissions ?? []` from the record loaded at the start.
ensureDecide(f, t, creds) ==
    LET need == permissionsNeedRefresh(f, t) IN
    IF need.kind = "throw" THEN [done |-> TRUE, result |-> need]
    ELSE IF need.value.b THEN [done |-> FALSE]
    ELSE [done |-> TRUE, result |-> Ret(Coalesce(Get(creds, "permissions"), EmptyList))]

-----------------------------------------------------------------------------
(* The inputs of the model *)

ProjectIds == {"p1", "p2"}
Scopes == {"secrets", "deploy", "other"}
Resources == {"secrets"}
Actions == {"read", "write"}

Strs(texts) == [i \in DOMAIN texts |-> Str(texts[i])]

\* A ProjectPermission, with and without the display name.
Entry(projectId, projectName, role, scopes, custom) ==
    Obj([projectId |-> Str(projectId), projectName |-> Str(projectName),
         role |-> Str(role), allowedScopes |-> Arr(Strs(scopes)),
         customPermissions |-> Obj(custom)])
EntryNoName(projectId, role, scopes, custom) ==
    Obj([projectId |-> Str(projectId), role |-> Str(role),
         allowedScopes |-> Arr(Strs(scopes)), customPermissions |-> Obj(custom)])

AdminEntry == Entry("p1", "Alpha", "admin", <<>>, "secrets:write" :> Bool(FALSE))
MemberEntry == EntryNoName("p1", "member", <<"deploy">>, "secrets:write" :> Bool(TRUE))
ReadonlyEntry == Entry("p1", "Alpha", "readonly", <<"secrets">>, <<>>)
BareMemberEntry == Entry("p2", "Beta", "member", <<>>, "secrets:write" :> Bool(FALSE))
WildcardEntry == Entry("p2", "Beta", "readonly", <<"other", "*">>, "secrets:read" :> Bool(TRUE))

\* The permission lists a server response or a saved record carries.
PermissionLists ==
    { <<>>, <<AdminEntry>>, <<MemberEntry>>, <<ReadonlyEntry>>, <<BareMemberEntry>>,
      <<WildcardEntry>>, <<MemberEntry, WildcardEntry>>, <<ReadonlyEntry, AdminEntry>>,
      <<BareMemberEntry, AdminEntry>> }

Minute(m) == Str(toISOString(m * MsPerMinute))

\* Records of the login flow: a token (possibly one YAML must quote, or empty)
\* with or without an expiry.
SessionRecords ==
    { Obj([accessToken |-> Str(tok)]) : tok \in {"tokA", "", "1234"} }
    \cup { Obj([accessToken |-> Str(tok), expiresAt |-> Minute(m)]) :
             tok \in {"tokA", "", "1234"}, m \in {1, 2} }

\* Records with every combination of the identity fields present or absent.
IdentityFields ==
    [refreshToken |-> Str("~"), email |-> Str("dev@example.com"),
     userId |-> Str("1234"), provider |-> Str("github")]
IdentityRecords ==
    { Obj([k \in {"accessToken"} \cup present |->
             IF k = "accessToken" THEN Str("tokA") ELSE IdentityFields[k]]) :
        present \in SUBSET DOMAIN IdentityFields }

\* Records that carry a permission snapshot, stamped or not.
PermissionRecords ==
    { Obj([accessToken |-> Str("tokA"), permissions |-> Arr(list)]) :
        list \in PermissionLists }
    \cup { Obj([accessToken |-> Str("tokA"), permissions |-> Arr(list),
                permissionsUpdatedAt |-> Minute(0)]) : list \in PermissionLists }

\* The well-formed records saveCredentials is called with.
WellFormedRecords == SessionRecords \cup IdentityRecords \cup PermissionRecords

\* Contents the file can have that no saveCredentials of a well-formed record
\* wrote: text that is no YAML, an empty file, documents that are no mapping,
\* mappings with missing or ill-typed fields.
ForeignContents ==
    { Unparsable,
      Plain(""),
      Plain("hello"),
      YSeq(<<Plain("tokA")>>),
      YMap([expiresAt |-> Plain(toISOString(2 * MsPerMinute))]),
      YMap([accessToken |-> Plain("1234")]),
      YMap([accessToken |-> Plain("tokA"), expiresAt |-> Plain("soon")]),
      YMap([accessToken |-> Plain("tokA"), permissions |-> Plain("none")]),
      YMap([accessToken |-> Plain("tokA"),
            permissions |-> YSeq(<<YMap([projectId |-> Plain("p1"),
                                         role |-> Plain("member")])>>)]),
      YMap([accessToken |-> Plain("tokA"),
            permissions |-> YSeq(<<YMap([projectId |-> Plain("p1"),
                                         role |-> Plain("admin")])>>)]),
      YMap([accessToken |-> Plain("tokA"),
            permissions |-> YSeq(<<YMap([projectId |-> Plain("p1")])>>)]) }

\* The lists updatePermissions is called with.
UpdateLists == { <<>>, <<MemberEntry, WildcardEntry>> }

\* The processes that call refreshPermissions and ensurePermissions.
Procs == {"cli"}

\* The value of DOTSET_API_URL in the environment of a process.
ApiUrlSettings == {Undefined, Str("http://localhost:3000")}

\* The records saved while refreshes are followed: a login with or without an
\* expiry, an empty token, a record carrying a snapshot without a time.
RefreshRecords ==
    { Obj([accessToken |-> Str("tokA")]),
      Obj([accessToken |-> Str("tokA"), expiresAt |-> Minute(1)]),
      Obj([accessToken |-> Str("")]),
      Obj([accessToken |-> Str("tokA"), permissions |-> Arr(<<AdminEntry>>)]) }

\* Foreign contents while refreshes are followed: no YAML, no mapping, a
\* snapshot whose time is no timestamp.
RefreshForeign ==
    { Unparsable,
      Plain("hello"),
      stringifyYaml(Obj([accessToken |-> Str("tokA"),
                         permissions |-> Arr(<<ReadonlyEntry>>),
                         permissionsUpdatedAt |-> Str("soon")])) }

\* The lists the server answers with.
ServerLists == { <<>>, <<MemberEntry, WildcardEntry>> }

\* What the request settles to.
Responses ==
    { Rejected,
      Response(401, Json(Obj([error |-> Str("unauthorized")]))),
      Response(200, NotJson),
      Response(200, Json(Null)),
      Response(200, Json(Obj(<<>>))) }
    \cup { Response(200, Json(Obj([permissions |-> Arr(list)]))) : list \in ServerLists }

-----------------------------------------------------------------------------
(* The state machine *)

Call(op, args, result) == [op |-> op, args |-> args, result |-> result]

\* No call in progress in process p.
Idle == [pc |-> "idle"]

\* A write to the file by anything else than the calls in progress. lockedOut
\* is a history of a call, read by no code: isAuthenticated() was false when
\* the call was made and nothing else has written the file since.
Disturbed ==
    [p \in DOMAIN proc |->
        IF proc[p].pc = "idle" THEN proc[p] ELSE [proc[p] EXCEPT !.lockedOut = FALSE]]

Init ==
    /\ file = NoStore
    /\ now = 0
    /\ last = Call("init", <<>>, Ret(Undefined))
    /\ lastWrite = [op |-> "none"]
    /\ proc = [p \in Procs |-> Idle]

\* The wall clock advances.
Tick ==
    /\ now < MaxNow * MsPerMinute
    /\ now' = now + MsPerMinute
    /\ last' = Call("tick", <<>>, Ret(Undefined))
    /\ UNCHANGED <<file, lastWrite, proc>>

\* The wall clock advances, where refreshes are followed.
Elapse ==
    /\ now < Horizon * MsPerMinute
    /\ now' = now + MsPerMinute
    /\ last' = Call("tick", <<>>, Ret(Undefined))
    /\ UNCHANGED <<file, lastWrite, proc>>

SaveCredentials(credentials) ==
    /\ file' = saveCredentials(file, credentials)
    /\ last' = Call("saveCredentials", <<>>, Ret(Undefined))
    /\ lastWrite' = [op |-> "saveCredentials", arg |-> credentials]
    /\ proc' = Disturbed
    /\ UNCHANGED now

\* The file is written by something else than this module (an editor, another
\* tool, a crash in the middle of a write).
ForeignWrite(content) ==
    /\ file' = FileWith(content)
    /\ last' = Call("foreignWrite", <<>>, Ret(Undefined))
    /\ lastWrite' = [op |-> "foreignWrite"]
    /\ proc' = Disturbed
    /\ UNCHANGED now

ClearCredentials ==
    /\ file' = clearCredentials(file).file
    /\ last' = Call("clearCredentials", <<>>, clearCredentials(file).result)
    /\ lastWrite' = [op |-> "clearCredentials"]
    /\ proc' = Disturbed
    /\ UNCHANGED now

UpdatePermissions(list) ==
    LET done == updatePermissions(file, now, Arr(list)) IN
    /\ file' = done.file
    /\ last' = Call("updatePermissions", <<>>, done.result)
    /\ lastWrite' = [op |-> "updatePermissions", arg |-> Arr(list), at |-> now,
                     by |-> "updatePermissions"]
    /\ proc' = Disturbed
    /\ UNCHANGED now

\* Mutant of Query: a file that does not parse is removed by the call.
Query_DropsCorrupt(op, args, result) ==
    /\ last' = Call(op, args, result)
    /\ file' = IF file.exists /\ parseContent(file.content).kind = "throw"
               THEN EmptyDir ELSE file
    /\ UNCHANGED <<now, lastWrite, proc>>

\* Mutant of Query: the answer comes from what was loaded when the process
\* started (no file), whatever the file holds at the call.
Query_LoadedAtStart(op, args, result) ==
    /\ last' = Call(op, args,
                    IF op = "isAuthenticated" THEN isAuthenticated(NoStore, now)
                    ELSE IF op = "getAccessToken" THEN getAccessToken(NoStore, now)
                    ELSE result)
    /\ UNCHANGED <<file, now, lastWrite, proc>>

\* A call that reads the file and the clock and writes nothing.
Query(op, args, result) ==
    /\ last' = Call(op, args, result)
    /\ UNCHANGED <<file, now, lastWrite, proc>>

LoadCredentials == Query("loadCredentials", <<>>, loadCredentials(file))
IsAuthenticated == Query("isAuthenticated", <<>>, isAuthenticated(file, now))
GetAccessToken == Query("getAccessToken", <<>>, getAccessToken(file, now))
RequireAuth == Query("requireAuth", <<>>, requireAuth(file, now))
GetProjectPermission(p) ==
    Query("getProjectPermission", <<p>>, getProjectPermission(file, p))
CanAccessScope(p, s) == Query("canAccessScope", <<p, s>>, canAccessScope(file, p, s))
HasPermission(p, r, a) == Query("hasPermission", <<p, r, a>>, hasPermission(file, p, r, a))
CanWrite(p) == Query("canWrite", <<p>>, canWrite(file, p))
GetRole(p) == Query("getRole", <<p>>, getRole(file, p))
RequireScopeAccess(p, s) ==
    Query("requireScopeAccess", <<p, s>>, requireScopeAccess(file, p, s))
RequirePermission(p, r, a) ==
    Query("requirePermission", <<p, r, a>>, requirePermission(file, p, r, a))
PermissionsNeedRefresh ==
    Query("permissionsNeedRefresh", <<>>, permissionsNeedRefresh(file, now))

Next ==
    \/ Tick
    \/ \E credentials \in WellFormedRecords : SaveCredentials(credentials)
    \/ \E content \in ForeignContents : ForeignWrite(content)
    \/ ClearCredentials
    \/ \E list \in UpdateLists : UpdatePermissions(list)
    \/ LoadCredentials
    \/ IsAuthenticated
    \/ GetAccessToken
    \/ RequireAuth
    \/ \E p \in ProjectIds : GetProjectPermission(p)
    \/ \E p \in ProjectIds, s \in Scopes : CanAccessScope(p, s)
    \/ \E p \in ProjectIds, r \in Resources, a \in Actions : HasPermission(p, r, a)
    \/ \E p \in ProjectIds : CanWrite(p)
    \/ \E p \in ProjectIds : GetRole(p)
    \/ \E p \in ProjectIds, s \in Scopes : RequireScopeAccess(p, s)
    \/ \E p \in ProjectIds, r \in Resources, a \in Actions : RequirePermission(p, r, a)
    \/ PermissionsNeedRefresh

Spec == Init /\ [][Next]_vars

-----------------------------------------------------------------------------
(* The state machine of the refreshes: a call of refreshPermissions or     *)
(* ensurePermissions runs in several steps, one for each access to the     *)
(* file and one across the await of fetch, and anything else can happen in *)
(* between.                                                                *)

Pending == [kind |-> "pending"]

\* Process p calls op.
Invoke(p, op) ==
    /\ proc[p].pc = "idle"
    /\ proc' = [proc EXCEPT ![p] =
                  [pc |-> IF op = "ensurePermissions" THEN "ensure" ELSE "refresh",
                   op |-> op, lockedOut |-> ~isAuthenticated(file, now).value.b]]
    /\ last' = Call("call", <<op>>, Pending)
    /\ UNCHANGED <<file, now, lastWrite>>

\* The call of p returns (or throws) result.
Return(p, args, result) ==
    /\ proc' = [proc EXCEPT ![p] = Idle]
    /\ last' = Call(proc[p].op, args, result)

\* The call of p goes on at pc, with more in its frame.
Goto(p, pc, frame) ==
    /\ proc' = [proc EXCEPT ![p] =
                  [k \in DOMAIN proc[p] \cup DOMAIN frame |->
                     IF k = "pc" THEN pc
                     ELSE IF k \in DOMAIN frame THEN frame[k] ELSE proc[p][k]]]
    /\ last' = Call("step", <<proc[p].op>>, Pending)

EnsureBegin(p) ==
    /\ proc[p].pc = "ensure"
    /\ LET begun == ensureBegin(file) IN
       IF begun.done THEN Return(p, <<>>, begun.result)
       ELSE Goto(p, "ensureDecide", [creds |-> begun.creds])
    /\ UNCHANGED <<file, now, lastWrite>>

EnsureDecide(p) ==
    /\ proc[p].pc = "ensureDecide"
    /\ LET decided == ensureDecide(file, now, proc[p].creds) IN
       IF decided.done THEN Return(p, <<>>, decided.result)
       ELSE Goto(p, "refresh", <<>>)
    /\ UNCHANGED <<file, now, lastWrite>>

RefreshBegin(p, env) ==
    /\ proc[p].pc = "refresh"
    /\ LET begun == refreshBegin(file, now, env) IN
       IF begun.done THEN Return(p, <<>>, begun.result)
       ELSE Goto(p, "awaiting", [request |-> begun.request, env |-> env])
    /\ UNCHANGED <<file, now, lastWrite>>

\* The request of p settles and the call runs to its end.
RefreshFinish(p, response) ==
    /\ proc[p].pc = "awaiting"
    /\ LET finished == refreshFinish(file, now, response) IN
       /\ file' = finished.file
       /\ Return(p, <<response>>, finished.result)
       /\ lastWrite' = IF finished.update.called
                       THEN [op |-> "updatePermissions", arg |-> finished.update.arg,
                             at |-> now, by |-> proc[p].op]
                       ELSE lastWrite
    /\ UNCHANGED now

NextRefresh ==
    \/ Elapse
    \/ \E credentials \in RefreshRecords : SaveCredentials(credentials)
    \/ \E content \in RefreshForeign : ForeignWrite(content)
    \/ ClearCredentials
    \/ \E list \in UpdateLists : UpdatePermissions(list)
    \/ PermissionsNeedRefresh
    \/ \E p \in Procs, op \in {"refreshPermissions", "ensurePermissions"} : Invoke(p, op)
    \/ \E p \in Procs : EnsureBegin(p)
    \/ \E p \in Procs : EnsureDecide(p)
    \/ \E p \in Procs, env \in ApiUrlSettings : RefreshBegin(p, env)
    \/ \E p \in Procs, response \in Responses : RefreshFinish(p, response)

SpecRefresh == Init /\ [][NextRefresh]_vars

-----------------------------------------------------------------------------
(* The calls to their end. The code between two awaits runs without a stop  *)
(* once the call is made, which is the weak fairness of the steps below;    *)
(* nothing makes the request settle, and no fairness is stated for it.      *)

LiveRecords ==
    { Obj([accessToken |-> Str("tokA")]),
      Obj([accessToken |-> Str("tokA"), permissions |-> Arr(<<AdminEntry>>)]) }

NextLive ==
    \/ Tick
    \/ \E credentials \in LiveRecords : SaveCredentials(credentials)
    \/ ClearCredentials
    \/ \E p \in Procs, op \in {"refreshPermissions", "ensurePermissions"} : Invoke(p, op)
    \/ \E p \in Procs : EnsureBegin(p)
    \/ \E p \in Procs : EnsureDecide(p)
    \/ \E p \in Procs : RefreshBegin(p, Undefined)
    \/ \E p \in Procs, response \in Responses : RefreshFinish(p, response)

SpecLive ==
    /\ Init
    /\ [][NextLive]_vars
    /\ \A p \in Procs :
          /\ WF_vars(EnsureBegin(p))
          /\ WF_vars(EnsureDecide(p))
          /\ WF_vars(RefreshBegin(p, Undefined))

-----------------------------------------------------------------------------
(* The write-back of a refresh as the two file accesses it is, the load and *)
(* the save of updatePermissions, with the writes of other processes        *)
(* (a login, a logout) able to fall in between; the records are those the   *)
(* login flow creates, without permissions.                                 *)

GapRecords ==
    { Obj([accessToken |-> Str("tokA")]),
      Obj([accessToken |-> Str("tokB"), expiresAt |-> Minute(3)]) }

GapResponses ==
    { Rejected,
      Response(200, Json(Obj([permissions |-> EmptyList]))),
      Response(200, Json(Obj([permissions |-> Arr(<<MemberEntry, WildcardEntry>>)]))) }

\* The request of p settles; the call ends, or has loaded the record to update.
RefreshRespond(p, response) ==
    /\ proc[p].pc = "awaiting"
    /\ LET responded == refreshRespond(file, response) IN
       IF responded.done THEN Return(p, <<response>>, responded.result)
       ELSE Goto(p, "saving", [response |-> response, creds |-> responded.creds,
                               permissions |-> responded.permissions])
    /\ UNCHANGED <<file, now, lastWrite>>

\* The record p loaded is written back. bearer and overwrote are histories of
\* the write, read by no code: the token the request carried, and what a load
\* of the file gave at the moment it was written over.
RefreshSave(p) ==
    /\ proc[p].pc = "saving"
    /\ file' = updatePermissionsSave(file, now, proc[p].creds, proc[p].permissions)
    /\ Return(p, <<proc[p].response>>, Ret(proc[p].permissions))
    /\ lastWrite' = [op |-> "updatePermissions", arg |-> proc[p].permissions, at |-> now,
                     by |-> proc[p].op,
                     bearer |-> proc[p].request.headers.Authorization[2],
                     overwrote |-> loadCredentials(file)]
    /\ UNCHANGED now

NextGap ==
    \/ Elapse
    \/ \E credentials \in GapRecords : SaveCredentials(credentials)
    \/ ClearCredentials
    \/ \E list \in UpdateLists : UpdatePermissions(list)
    \/ \E p \in Procs, op \in {"refreshPermissions", "ensurePermissions"} : Invoke(p, op)
    \/ \E p \in Procs : EnsureBegin(p)
    \/ \E p \in Procs : EnsureDecide(p)
    \/ \E p \in Procs : RefreshBegin(p, Undefined)
    \/ \E p \in Procs, response \in GapResponses : RefreshRespond(p, response)
    \/ \E p \in Procs : RefreshSave(p)

SpecGap == Init /\ [][NextGap]_vars

-----------------------------------------------------------------------------
(* Two command line invocations at the same time: each runs its own calls, *)
(* on the one credential file, with nothing to coordinate them.            *)

RaceProcs == {"cli", "other"}

\* The records saved while two processes run: a login without a snapshot, and
\* one with a snapshot without a time.
RaceRecords ==
    { Obj([accessToken |-> Str("tokA")]),
      Obj([accessToken |-> Str("tokA"), permissions |-> Arr(<<ReadonlyEntry>>)]) }

\* The lists the server answers with; it may answer the two requests with
\* different lists.
RaceLists == { <<>>, <<AdminEntry>>, <<MemberEntry, WildcardEntry>> }
RaceResponses ==
    { Rejected } \cup { Response(200, Json(Obj([permissions |-> Arr(list)]))) : list \in RaceLists }

InitRace ==
    /\ file = NoStore
    /\ now = 0
    /\ last = Call("init", <<>>, Ret(Undefined))
    /\ lastWrite = [op |-> "none"]
    /\ proc = [p \in RaceProcs |-> Idle]

NextRace ==
    \/ \E credentials \in RaceRecords : SaveCredentials(credentials)
    \/ \E p \in RaceProcs, op \in {"refreshPermissions", "ensurePermissions"} : Invoke(p, op)
    \/ \E p \in RaceProcs : EnsureBegin(p)
    \/ \E p \in RaceProcs : EnsureDecide(p)
    \/ \E p \in RaceProcs : RefreshBegin(p, Undefined)
    \/ \E p \in RaceProcs, response \in RaceResponses : RefreshFinish(p, response)

SpecRace == InitRace /\ [][NextRace]_vars

-----------------------------------------------------------------------------
(* Vocabulary of the properties: what the stored document says, read off  *)
(* the document itself.                                                   *)

\* The record the file holds: a YAML mapping, or none.
RecordLoads == file.exists /\ file.content.y = "map"
Stored == IF RecordLoads THEN parseYaml(file.content) ELSE Null
Present(k) == RecordLoads /\ k \in DOMAIN file.content.pairs
Field(k) == IF Present(k) THEN parseYaml(file.content.pairs[k]) ELSE Undefined

\* The token is there and not the empty string.
NonEmptyToken ==
    Present("accessToken") /\ Field("accessToken") \notin {Str(""), Null, Undefined}

\* The instants (in ms) the timestamp in field k denotes: one, or none when
\* the field is absent or no timestamp.
Instants(k) ==
    LET v == Field(k) IN
    {(i - 1) * MsPerMinute : i \in {j \in DOMAIN IsoTable : v = Str(IsoTable[j])}}
ExpiryReached == \E e \in Instants("expiresAt") : now >= e
ExpiryAhead == \E e \in Instants("expiresAt") : e > now

\* The entries of the stored permission list for project p.
EntriesFor(p) ==
    IF Present("permissions") /\ Field("permissions").t = "array"
    THEN {i \in DOMAIN Field("permissions").items :
            /\ Field("permissions").items[i].t = "object"
            /\ "projectId" \in DOMAIN Field("permissions").items[i].props
            /\ Field("permissions").items[i].props["projectId"] = Str(p)}
    ELSE {}

\* No ProjectPermission is cached for p: no record, no list, an empty list, or
\* a list of entries of other projects.
Uncached(p) ==
    \/ ~Present("permissions")
    \/ /\ Field("permissions").t = "array"
       /\ \A i \in DOMAIN Field("permissions").items :
            /\ Field("permissions").items[i].t = "object"
            /\ "projectId" \in DOMAIN Field("permissions").items[i].props
            /\ Field("permissions").items[i].props["projectId"] # Str(p)

\* The one entry cached for p (projectId is a key of the list).
Cached(p) == Cardinality(EntriesFor(p)) = 1
EntryOf(p) == Field("permissions").items[CHOOSE i \in EntriesFor(p) : TRUE]
RoleOf(p) == IF "role" \in DOMAIN EntryOf(p).props THEN EntryOf(p).props["role"] ELSE Undefined

\* What a call answers on store f at time t.
Answer(f, t, op, args) ==
    CASE op = "loadCredentials" -> loadCredentials(f)
      [] op = "isAuthenticated" -> isAuthenticated(f, t)
      [] op = "getAccessToken" -> getAccessToken(f, t)
      [] op = "requireAuth" -> requireAuth(f, t)
      [] op = "getProjectPermission" -> getProjectPermission(f, args[1])
      [] op = "canAccessScope" -> canAccessScope(f, args[1], args[2])
      [] op = "hasPermission" -> hasPermission(f, args[1], args[2], args[3])
      [] op = "canWrite" -> canWrite(f, args[1])
      [] op = "getRole" -> getRole(f, args[1])
      [] op = "requireScopeAccess" -> requireScopeAccess(f, args[1], args[2])
      [] op = "requirePermission" -> requirePermission(f, args[1], args[2], args[3])
      [] op = "permissionsNeedRefresh" -> permissionsNeedRefresh(f, t)

Queries ==
    {"loadCredentials", "isAuthenticated", "getAccessToken", "requireAuth",
     "getProjectPermission", "canAccessScope", "hasPermission", "canWrite", "getRole",
     "requireScopeAccess", "requirePermission", "permissionsNeedRefresh"}

-----------------------------------------------------------------------------
(* Properties *)

\* C1: isAuthenticated() returns true if and only if a record loads, its
\* accessToken is non-empty, and expiresAt is absent or strictly later than the
\* current time, for every content of the file and every clock value.
C1_IsAuthenticatedIff ==
    last.op = "isAuthenticated" =>
        last.result = Ret(Bool(/\ RecordLoads
                               /\ NonEmptyToken
                               /\ (~Present("expiresAt") \/ ExpiryAhead)))

\* C2: getAccessToken() returns the stored accessToken exactly when
\* isAuthenticated() is true, and returns null, never throwing, exactly when
\* isAuthenticated() is false.
C2_TokenIffAuthenticated ==
    last.op = "getAccessToken" =>
        /\ last.result.kind = "return"
        /\ isAuthenticated(file, now) \in {Ret(Bool(TRUE)), Ret(Bool(FALSE))}
        /\ isAuthenticated(file, now) = Ret(Bool(TRUE))
             => last.result = Ret(Field("accessToken"))
        /\ isAuthenticated(file, now) = Ret(Bool(FALSE))
             => last.result = Ret(Null)

\* C2 witness: a token is handed out for a record whose expiry is still ahead.
C2_Witness ==
    /\ last.op = "getAccessToken"
    /\ last.result = Ret(Str("tokA"))
    /\ ExpiryAhead

\* C3: expiry is inclusive of the expiry instant: with a non-empty token and
\* now >= expiresAt, isAuthenticated() is false, getAccessToken() is null and
\* requireAuth() fails; and once the clock has reached expiresAt, no step other
\* than a new write of the record makes the record valid again.
C3_ExpiryInclusive ==
    [][ /\ (last'.op \in {"isAuthenticated", "getAccessToken", "requireAuth"}
               /\ NonEmptyToken' /\ ExpiryReached') =>
             /\ last'.op = "isAuthenticated" => last'.result = Ret(Bool(FALSE))
             /\ last'.op = "getAccessToken" => last'.result = Ret(Null)
             /\ last'.op = "requireAuth" => last'.result.kind = "throw"
        /\ (last'.op \notin {"saveCredentials", "foreignWrite"}
               /\ NonEmptyToken /\ ExpiryReached) =>
             /\ isAuthenticated(file', now') = Ret(Bool(FALSE))
             /\ getAccessToken(file', now') = Ret(Null)
      ]_vars

\* C3 witness: isAuthenticated() has answered false at the expiry instant itself.
C3_Witness ==
    /\ NonEmptyToken
    /\ Instants("expiresAt") = {now}
    /\ last = Call("isAuthenticated", <<>>, Ret(Bool(FALSE)))

\* C4: requireAuth() returns the loaded record when it is valid; it fails with
\* the 'Not logged in' message exactly when no record loads or the token is
\* empty, with the 'Session expired' message exactly when a non-empty token is
\* present and now >= expiresAt, and with no other error kind than
\* AuthRequiredError.
C4_RequireAuth ==
    last.op = "requireAuth" =>
        /\ (last.result = Throw("AuthRequiredError", NotLoggedInMessage))
             <=> (~RecordLoads \/ ~NonEmptyToken)
        /\ (last.result = Throw("AuthRequiredError", SessionExpiredMessage))
             <=> (NonEmptyToken /\ ExpiryReached)
        /\ last.result.kind = "throw" => last.result.error = "AuthRequiredError"
        /\ last.result.kind = "return" => last.result.value = Stored
        /\ (last.result.kind = "return") <=> (isAuthenticated(file, now) = Ret(Bool(TRUE)))

\* C4 witness: requireAuth() has failed with 'Session expired'.
C4_Witness ==
    /\ last.op = "requireAuth"
    /\ last.result = Throw("AuthRequiredError", SessionExpiredMessage)
    /\ NonEmptyToken /\ ExpiryReached

\* C5: round trip: loadCredentials() after saveCredentials(r), with no write in
\* between, returns a record equal to r field for field, absent fields absent.
C5_RoundTrip ==
    (last.op = "loadCredentials" /\ lastWrite.op = "saveCredentials") =>
        /\ last.result = Ret(lastWrite.arg)
        /\ DOMAIN last.result.value.props = DOMAIN lastWrite.arg.props
        /\ \A k \in DOMAIN lastWrite.arg.props :
             last.result.value.props[k] = lastWrite.arg.props[k]

\* C5 witness: a record with a two-entry permission list and no
\* permissionsUpdatedAt has been saved and loaded.
C5_Witness ==
    /\ last.op = "loadCredentials"
    /\ lastWrite.op = "saveCredentials"
    /\ "permissions" \in DOMAIN lastWrite.arg.props
    /\ "permissionsUpdatedAt" \notin DOMAIN lastWrite.arg.props
    /\ Len(lastWrite.arg.props["permissions"].items) = 2

\* C6: after clearCredentials(), from any state of the store, loadCredentials()
\* yields null; clearCredentials() raises no error, also on an absent file, and
\* a second call changes nothing; isAuthenticated() is false and every query
\* answers as it does when there was never a login.
C6_ClearThenLoad ==
    /\ last.op = "clearCredentials" => last.result = Ret(Undefined)
    /\ lastWrite.op = "clearCredentials" =>
          /\ ~file.exists
          /\ clearCredentials(file) = [file |-> file, result |-> Ret(Undefined)]
          /\ last.op = "loadCredentials" => last.result = Ret(Null)
          /\ last.op = "isAuthenticated" => last.result = Ret(Bool(FALSE))
          /\ last.op \in Queries => last.result = Answer(NoStore, now, last.op, last.args)

\* C6 witness: loadCredentials() has run after a clear that removed a file.
C6_Witness ==
    /\ lastWrite.op = "clearCredentials"
    /\ file = EmptyDir
    /\ last.op = "loadCredentials"

\* The file is missing or holds a text that does not parse.
Unreadable == ~file.exists \/ file.content.y = "invalid"

\* C7: loadCredentials() never raises; when the file is missing or does not
\* parse it returns null, and the operations built on it behave as without
\* credentials: isAuthenticated false, getAccessToken null, the permission
\* queries fail open, permissionsNeedRefresh true, requireAuth 'Not logged in'.
C7_LoadNeverRaises ==
    /\ last.op = "loadCredentials" => last.result.kind = "return"
    /\ Unreadable =>
          /\ last.op = "loadCredentials" => last.result = Ret(Null)
          /\ last.op = "isAuthenticated" => last.result = Ret(Bool(FALSE))
          /\ last.op = "getAccessToken" => last.result = Ret(Null)
          /\ last.op \in {"getProjectPermission", "getRole"} => last.result = Ret(Null)
          /\ last.op \in {"canAccessScope", "hasPermission", "canWrite"}
                => last.result = Ret(Bool(TRUE))
          /\ last.op \in {"requireScopeAccess", "requirePermission"}
                => last.result = Ret(Undefined)
          /\ last.op = "permissionsNeedRefresh" => last.result = Ret(Bool(TRUE))
          /\ last.op = "requireAuth"
                => last.result = Throw("AuthRequiredError", NotLoggedInMessage)

\* C7 witness: a permission query has answered on a file that does not parse.
C7_Witness ==
    /\ file.exists /\ file.content.y = "invalid"
    /\ last.op = "hasPermission"
    /\ last.result = Ret(Bool(TRUE))

\* C8: fail-open: for a projectId with no ProjectPermission in the stored record
\* (no record, no list, an empty list, a list without it), canAccessScope,
\* hasPermission and canWrite return true for every scope, resource and action,
\* and requireScopeAccess and requirePermission return normally.
C8_FailOpen ==
    (last.op \in {"canAccessScope", "hasPermission", "canWrite",
                  "requireScopeAccess", "requirePermission"}
       /\ Uncached(last.args[1])) =>
        /\ last.op \in {"canAccessScope", "hasPermission", "canWrite"}
              => last.result = Ret(Bool(TRUE))
        /\ last.op \in {"requireScopeAccess", "requirePermission"}
              => last.result = Ret(Undefined)

\* C8 witness: canAccessScope has allowed a project that a non-empty list does
\* not mention.
C8_Witness ==
    /\ last.op = "canAccessScope"
    /\ Present("permissions") /\ Field("permissions").t = "array"
    /\ Len(Field("permissions").items) > 0
    /\ Uncached(last.args[1])
    /\ last.result = Ret(Bool(TRUE))

\* C9: for a project whose cached role is admin, canAccessScope, hasPermission
\* and canWrite return true for every scope, resource and action, whatever
\* allowedScopes and customPermissions hold (an explicit false included).
C9_AdminAll ==
    (last.op \in {"canAccessScope", "hasPermission", "canWrite"}
       /\ Cached(last.args[1]) /\ RoleOf(last.args[1]) = Str("admin")) =>
        last.result = Ret(Bool(TRUE))

\* C9 witness: hasPermission has allowed an admin whose customPermissions maps
\* the asked key to false.
C9_Witness ==
    /\ last.op = "hasPermission"
    /\ last.args = <<"p1", "secrets", "write">>
    /\ Cached("p1") /\ RoleOf("p1") = Str("admin")
    /\ "customPermissions" \in DOMAIN EntryOf("p1").props
    /\ Get(EntryOf("p1").props["customPermissions"], "secrets:write") = Bool(FALSE)
    /\ last.result = Ret(Bool(TRUE))

\* The allowedScopes of the entry cached for p, when it is a list.
HasScopeList(p) ==
    /\ "allowedScopes" \in DOMAIN EntryOf(p).props
    /\ EntryOf(p).props["allowedScopes"].t = "array"
ScopesOf(p) ==
    {EntryOf(p).props["allowedScopes"].items[i] :
        i \in DOMAIN EntryOf(p).props["allowedScopes"].items}

\* C10: for a project with a cached ProjectPermission whose role is member or
\* readonly, canAccessScope(projectId, scope) is true if and only if scope or
\* the wildcard "*" is in allowedScopes; the role member alone grants no scope.
C10_ScopeIff ==
    (last.op = "canAccessScope"
       /\ Cached(last.args[1])
       /\ RoleOf(last.args[1]) \in {Str("member"), Str("readonly")}
       /\ HasScopeList(last.args[1])) =>
        last.result = Ret(Bool(\/ Str(last.args[2]) \in ScopesOf(last.args[1])
                               \/ Str("*") \in ScopesOf(last.args[1])))

\* C10 witness: canAccessScope has denied a member whose allowedScopes is empty.
C10_Witness ==
    /\ last.op = "canAccessScope"
    /\ Cached(last.args[1])
    /\ RoleOf(last.args[1]) = Str("member")
    /\ HasScopeList(last.args[1])
    /\ ScopesOf(last.args[1]) = {}
    /\ last.result = Ret(Bool(FALSE))

\* The customPermissions of the entry cached for p, when it is a mapping.
HasCustomMap(p) ==
    /\ "customPermissions" \in DOMAIN EntryOf(p).props
    /\ EntryOf(p).props["customPermissions"].t = "object"
CustomOf(p) == EntryOf(p).props["customPermissions"].props

\* C11: for a project with a cached ProjectPermission whose role is not admin,
\* hasPermission(projectId, resource, action) is true if and only if
\* customPermissions maps "<resource>:<action>" to true; a missing key and a key
\* mapped to false both give false, and allowedScopes (the wildcard included)
\* has no influence.
C11_CustomIff ==
    (last.op = "hasPermission"
       /\ Cached(last.args[1])
       /\ RoleOf(last.args[1]) # Str("admin")
       /\ HasCustomMap(last.args[1])) =>
        LET key == PermissionKey(last.args[2], last.args[3]) IN
        last.result = Ret(Bool(/\ key \in DOMAIN CustomOf(last.args[1])
                               /\ CustomOf(last.args[1])[key] = Bool(TRUE)))

\* C11 witness: hasPermission has denied a member whose customPermissions maps
\* the asked key to false.
C11_Witness ==
    /\ last.op = "hasPermission"
    /\ Cached(last.args[1])
    /\ RoleOf(last.args[1]) = Str("member")
    /\ HasCustomMap(last.args[1])
    /\ PermissionKey(last.args[2], last.args[3]) \in DOMAIN CustomOf(last.args[1])
    /\ CustomOf(last.args[1])[PermissionKey(last.args[2], last.args[3])] = Bool(FALSE)
    /\ last.result = Ret(Bool(FALSE))

\* C12: for a project with a cached ProjectPermission, canWrite(projectId) is
\* true if and only if the role is admin or member; readonly gives false
\* whatever allowedScopes and customPermissions hold.
C12_WriteIff ==
    (last.op = "canWrite" /\ Cached(last.args[1])) =>
        last.result = Ret(Bool(RoleOf(last.args[1]) \in {Str("admin"), Str("member")}))

\* C12 witness: canWrite has denied a readonly entry whose allowedScopes holds
\* the wildcard and whose customPermissions grants a key.
C12_Witness ==
    /\ last.op = "canWrite"
    /\ Cached(last.args[1])
    /\ RoleOf(last.args[1]) = Str("readonly")
    /\ HasScopeList(last.args[1]) /\ Str("*") \in ScopesOf(last.args[1])
    /\ HasCustomMap(last.args[1])
    /\ \E k \in DOMAIN CustomOf(last.args[1]) : CustomOf(last.args[1])[k] = Bool(TRUE)
    /\ last.result = Ret(Bool(FALSE))

\* The entry cached for p carries a role.
HasRole(p) == RoleOf(p) \notin {Undefined, Null}

\* C13: getProjectPermission(projectId) returns the cached entry whose projectId
\* equals the argument, and nothing when there is no record, no list or no such
\* entry; getRole(projectId) is that entry's role, and is nothing exactly when
\* getProjectPermission returns nothing (every entry carrying a role, as the
\* ProjectPermission type requires).
C13_LookupAndRole ==
    /\ (last.op \in {"getProjectPermission", "getRole"} /\ Uncached(last.args[1])) =>
          last.result = Ret(Null)
    /\ (last.op = "getProjectPermission" /\ Cached(last.args[1])) =>
          last.result = Ret(EntryOf(last.args[1]))
    /\ (last.op = "getRole" /\ Cached(last.args[1]) /\ HasRole(last.args[1])) =>
          /\ last.result = Ret(RoleOf(last.args[1]))
          /\ last.result # Ret(Null)

\* C13 witness: getProjectPermission has returned an entry that is not the first
\* of the list.
C13_Witness ==
    /\ last.op = "getProjectPermission"
    /\ Cached(last.args[1])
    /\ 1 \notin EntriesFor(last.args[1])
    /\ last.result = Ret(EntryOf(last.args[1]))

\* The age of the stored snapshot is more than five minutes.
FiveMinutes == 5 * MsPerMinute
SnapshotOlderThan(age) == \E u \in Instants("permissionsUpdatedAt") : now - u > age

\* C14: permissionsNeedRefresh() is true if and only if no record loads, or
\* permissionsUpdatedAt is absent, or the current time minus permissionsUpdatedAt
\* is strictly more than five minutes; at exactly five minutes the snapshot is
\* still fresh.
C14_NeedRefreshIff ==
    last.op = "permissionsNeedRefresh" =>
        last.result = Ret(Bool(\/ ~RecordLoads
                               \/ ~Present("permissionsUpdatedAt")
                               \/ SnapshotOlderThan(FiveMinutes)))

\* C14 witness: permissionsNeedRefresh has answered false for a snapshot that is
\* exactly five minutes old.
C14_Witness ==
    /\ last.op = "permissionsNeedRefresh"
    /\ \E u \in Instants("permissionsUpdatedAt") : now - u = FiveMinutes
    /\ last.result = Ret(Bool(FALSE))

\* C15: permissionsNeedRefresh() is true right after a record without
\* permissionsUpdatedAt is saved, false right after updatePermissions is called
\* on an existing record, and true again once more than five minutes have
\* passed since that call with no other write in between.
C15_StalenessLifecycle ==
    last.op = "permissionsNeedRefresh" =>
        /\ (lastWrite.op = "saveCredentials"
              /\ "permissionsUpdatedAt" \notin DOMAIN lastWrite.arg.props) =>
                last.result = Ret(Bool(TRUE))
        /\ (lastWrite.op = "updatePermissions" /\ RecordLoads) =>
                last.result = Ret(Bool(now - lastWrite.at > FiveMinutes))

\* C15 witness: permissionsNeedRefresh has answered true more than five minutes
\* after an updatePermissions that nothing has overwritten.
C15_Witness ==
    /\ last.op = "permissionsNeedRefresh"
    /\ lastWrite.op = "updatePermissions"
    /\ RecordLoads
    /\ now - lastWrite.at > FiveMinutes
    /\ last.result = Ret(Bool(TRUE))

\* The stored record holds a token that is not empty and not expired.
UsableToken == NonEmptyToken /\ ~ExpiryReached

\* C16: refreshPermissions() called with no usable access token (no record, an
\* empty token, or the current time at or past expiresAt) returns an empty list,
\* sends no request and leaves the credential file as it is.
C16_NoTokenNoRequest ==
    [][\A p \in Procs :
         (proc[p].pc = "refresh" /\ proc'[p].pc # "refresh" /\ ~UsableToken) =>
            /\ proc'[p].pc = "idle"
            /\ last' = Call(proc[p].op, <<>>, Ret(EmptyList))
            /\ file' = file]_vars

\* C16 witness: refreshPermissions has returned the empty list without a
\* request, on a record whose token has expired.
C16_Witness ==
    /\ last = Call("refreshPermissions", <<>>, Ret(EmptyList))
    /\ NonEmptyToken
    /\ ExpiryReached

\* The request of process p settles in this step, and what it settles to.
Settles(p) == proc[p].pc = "awaiting" /\ proc'[p].pc = "idle"
Settled == last'.args[1]
SuccessStatus(r) == r.kind = "response" /\ r.status \in 200..299

\* The body of response r is { permissions: [...] }.
PermissionsBody(r) ==
    /\ r.body.json
    /\ r.body.value.t = "object"
    /\ "permissions" \in DOMAIN r.body.value.props
    /\ r.body.value.props["permissions"].t = "array"

\* C17: on a response with a non-success status or a transport failure,
\* refreshPermissions() returns an empty list, raises nothing and leaves the
\* stored record unchanged byte for byte.
C17_FailureKeepsRecord ==
    [][\A p \in Procs :
         (Settles(p) /\ ~SuccessStatus(Settled)) =>
            /\ last'.result = Ret(EmptyList)
            /\ file' = file]_vars

\* C17 witness: refreshPermissions has returned the empty list on a transport
\* failure, and the file holds a snapshot with its time.
C17_Witness ==
    /\ last = Call("refreshPermissions", <<Rejected>>, Ret(EmptyList))
    /\ Present("permissions")
    /\ Instants("permissionsUpdatedAt") # {}

\* C18: a response with a success status whose body is not
\* { permissions: [...] } (a body without a permissions field, for one) is
\* treated as a failure: the result is an empty list, nothing is raised, and
\* the stored permissions and permissionsUpdatedAt are not modified.
C18_BadBodyIsFailure ==
    [][\A p \in Procs :
         (Settles(p) /\ SuccessStatus(Settled) /\ ~PermissionsBody(Settled)) =>
            /\ last'.result = Ret(EmptyList)
            /\ Field("permissions")' = Field("permissions")
            /\ Field("permissionsUpdatedAt")' = Field("permissionsUpdatedAt")]_vars

\* C19: on a successful permissions response, refreshPermissions() replaces the
\* stored permissions by exactly the list of the server, sets
\* permissionsUpdatedAt to the current time, persists the record and returns
\* that list; right afterwards permissionsNeedRefresh() is false.
C19_SuccessReplaces ==
    [][\A p \in Procs :
         (Settles(p) /\ SuccessStatus(Settled) /\ PermissionsBody(Settled)
            /\ RecordLoads) =>
            /\ last'.result = Ret(Settled.body.value.props["permissions"])
            /\ Field("permissions")' = Settled.body.value.props["permissions"]
            /\ Instants("permissionsUpdatedAt")' = {now}
            /\ \A k \in DOMAIN Stored.props \ {"permissions", "permissionsUpdatedAt"} :
                  Field(k)' = Field(k)
            /\ permissionsNeedRefresh(file', now') = Ret(Bool(FALSE))]_vars

\* C19 witness: refreshPermissions has returned a list of two entries, which
\* the file now holds with the current time.
C19_Witness ==
    /\ last.op = "refreshPermissions"
    /\ last.args # <<>>
    /\ SuccessStatus(last.args[1]) /\ PermissionsBody(last.args[1])
    /\ last.result = Ret(Arr(<<MemberEntry, WildcardEntry>>))
    /\ Field("permissions") = Arr(<<MemberEntry, WildcardEntry>>)
    /\ Instants("permissionsUpdatedAt") = {now}
    /\ now > 0

\* C20: ensurePermissions() returns an empty list whenever isAuthenticated() is
\* false (no record, an empty token, an expired token), an expired token with a
\* cached snapshot inside the five minutes included.
C20_UnauthenticatedEmpty ==
    [][\A p \in Procs :
         (proc[p].pc # "idle" /\ proc'[p].pc = "idle"
            /\ proc[p].op = "ensurePermissions" /\ proc[p].lockedOut) =>
            last'.result = Ret(EmptyList)]_vars

\* The projectName of the first entry cached for p, or p without one.
DisplayNameOf(p) ==
    IF EntriesFor(p) = {} THEN Str(p)
    ELSE LET first == CHOOSE i \in EntriesFor(p) : \A j \in EntriesFor(p) : i <= j
             entry == Field("permissions").items[first].props
         IN  IF "projectName" \in DOMAIN entry THEN entry["projectName"] ELSE Str(p)
Parts(message) == {message[i] : i \in DOMAIN message}
Denied(result) == result.kind = "throw" /\ result.error = "PermissionDeniedError"

\* C22: requireScopeAccess(projectId, scope) fails with PermissionDeniedError if
\* and only if canAccessScope(projectId, scope) is false and returns normally
\* otherwise; the message holds the scope and the projectName of the cached
\* entry, or the projectId when the entry has no projectName.
C22_ScopeGate ==
    (last.op = "requireScopeAccess"
       /\ canAccessScope(file, last.args[1], last.args[2]).kind = "return") =>
        IF canAccessScope(file, last.args[1], last.args[2]) = Ret(Bool(FALSE))
        THEN /\ Denied(last.result)
             /\ Str(last.args[2]) \in Parts(last.result.message)
             /\ DisplayNameOf(last.args[1]) \in Parts(last.result.message)
        ELSE last.result = Ret(Undefined)

\* C22 witness: requireScopeAccess has failed for an entry without projectName,
\* with the projectId in the message.
C22_Witness ==
    /\ last.op = "requireScopeAccess"
    /\ Cached(last.args[1])
    /\ "projectName" \notin DOMAIN EntryOf(last.args[1]).props
    /\ Denied(last.result)
    /\ Str(last.args[1]) \in Parts(last.result.message)

\* C23: requirePermission(projectId, resource, action) fails with
\* PermissionDeniedError if and only if hasPermission(projectId, resource,
\* action) is false and returns normally otherwise; the message names
\* "resource:action" and the display name of the project, the projectId when
\* there is no projectName.
C23_PermissionGate ==
    (last.op = "requirePermission"
       /\ hasPermission(file, last.args[1], last.args[2], last.args[3]).kind = "return") =>
        IF hasPermission(file, last.args[1], last.args[2], last.args[3]) = Ret(Bool(FALSE))
        THEN /\ Denied(last.result)
             /\ Str(PermissionKey(last.args[2], last.args[3])) \in Parts(last.result.message)
             /\ DisplayNameOf(last.args[1]) \in Parts(last.result.message)
        ELSE last.result = Ret(Undefined)

\* C23 witness: requirePermission has failed for an entry with a projectName,
\* with the name and the key in the message.
C23_Witness ==
    /\ last.op = "requirePermission"
    /\ Cached(last.args[1])
    /\ "projectName" \in DOMAIN EntryOf(last.args[1]).props
    /\ Denied(last.result)
    /\ EntryOf(last.args[1]).props["projectName"] \in Parts(last.result.message)
    /\ Str(PermissionKey(last.args[2], last.args[3])) \in Parts(last.result.message)

\* C24: canAccessScope, hasPermission and canWrite never throw and always
\* return a boolean, for every content of the file that loads, an entry without
\* allowedScopes or customPermissions included; the only errors raised are
\* AuthRequiredError (by requireAuth) and PermissionDeniedError (by the two
\* gates).
C24_QueriesNeverThrow ==
    /\ last.op \in {"canAccessScope", "hasPermission", "canWrite"} =>
          last.result \in {Ret(Bool(TRUE)), Ret(Bool(FALSE))}
    /\ last.result.kind = "throw" =>
          \/ last.op = "requireAuth" /\ last.result.error = "AuthRequiredError"
          \/ last.op \in {"requireScopeAccess", "requirePermission"} /\ Denied(last.result)

\* The calls that only ask.
PureCalls ==
    {"requireScopeAccess", "requirePermission", "getProjectPermission", "canAccessScope",
     "hasPermission", "canWrite", "getRole", "permissionsNeedRefresh", "isAuthenticated",
     "getAccessToken", "requireAuth"}

\* C25: requireScopeAccess and requirePermission, returning or failing, leave
\* the credential file unchanged, as do the queries under them; the file changes
\* only by saveCredentials, clearCredentials, updatePermissions and a refresh
\* that got a success response (and by writes from outside the module).
C25_GatesArePure ==
    [][/\ last'.op \in PureCalls => file' = file
       /\ file' # file =>
            \/ last'.op \in {"saveCredentials", "clearCredentials", "updatePermissions",
                              "foreignWrite"}
            \/ /\ last'.op \in {"refreshPermissions", "ensurePermissions"}
               /\ last'.args # <<>>
               /\ last'.args[1].kind = "response"
               /\ last'.args[1].status \in 200..299]_vars

\* C25 witness: requirePermission has failed and the file holds the record.
C25_Witness ==
    /\ last.op = "requirePermission"
    /\ Denied(last.result)
    /\ lastWrite.op = "saveCredentials"
    /\ Stored = lastWrite.arg

Authenticated == NonEmptyToken /\ (~Present("expiresAt") \/ ExpiryAhead)

\* The stored snapshot is stale (the three cases of C14).
Stale ==
    \/ ~RecordLoads
    \/ ~Present("permissionsUpdatedAt")
    \/ SnapshotOlderThan(FiveMinutes)

\* Process p takes a step from pc.
StepsFrom(p, pc) == proc[p].pc = pc /\ proc'[p].pc # pc

\* C21: for an authenticated user ensurePermissions() goes to refreshPermissions,
\* and so to the network, if and only if permissionsNeedRefresh() is true at the
\* call; with a fresh snapshot it returns exactly the stored permissions list,
\* sends no request and does not write the file.
C21_RefreshIffStale ==
    [][\A p \in Procs :
         /\ (StepsFrom(p, "ensureDecide") /\ Authenticated /\ proc[p].creds = Stored) =>
               IF Stale
               THEN proc'[p].pc = "refresh"
               ELSE /\ proc'[p].pc = "idle"
                    /\ last' = Call("ensurePermissions", <<>>,
                                    Ret(Coalesce(Field("permissions"), EmptyList)))
                    /\ file' = file
         /\ (StepsFrom(p, "refresh") /\ Authenticated) =>
               proc'[p].pc = "awaiting"]_vars

\* C21 witness: ensurePermissions has returned the stored list of a fresh
\* snapshot to an authenticated user, without a request.
C21_Witness ==
    /\ last.op = "ensurePermissions"
    /\ last.args = <<>>
    /\ Authenticated
    /\ ~Stale
    /\ Field("permissions").t = "array"
    /\ Field("permissions").items # <<>>
    /\ last.result = Ret(Field("permissions"))

\* The base URL for a value of DOTSET_API_URL: the value when set, the fixed
\* default otherwise.
BaseFor(env) == IF env = Undefined THEN Str("https://api.dotsetlabs.com") ELSE env

\* C27: getApiUrl() is DOTSET_API_URL when it is set and
\* https://api.dotsetlabs.com otherwise, and the request of refreshPermissions
\* goes to <that base>/auth/permissions with the header
\* Authorization: Bearer <the accessToken stored when the refresh starts>.
C27_RequestTarget ==
    [][\A p \in Procs :
         (StepsFrom(p, "refresh") /\ proc'[p].pc = "awaiting") =>
            /\ getApiUrl(proc'[p].env) = BaseFor(proc'[p].env)
            /\ proc'[p].request.url = <<BaseFor(proc'[p].env), Str("/auth/permissions")>>
            /\ proc'[p].request.headers =
                  [Authorization |-> <<Str("Bearer "), Field("accessToken")>>]]_vars

\* C27 witness: a request is in flight to the base of the environment, with
\* the stored token.
C27_Witness ==
    \E p \in Procs :
        /\ proc[p].pc = "awaiting"
        /\ proc[p].env = Str("http://localhost:3000")
        /\ proc[p].request.url = <<Str("http://localhost:3000"), Str("/auth/permissions")>>
        /\ proc[p].request.headers.Authorization = <<Str("Bearer "), Str("tokA")>>

\* The last write to the file is the write-back of a refresh made by
\* ensurePermissions less than five minutes ago, and the record loads.
RefreshedByEnsure ==
    /\ lastWrite.op = "updatePermissions"
    /\ lastWrite.by = "ensurePermissions"
    /\ RecordLoads
    /\ now - lastWrite.at < FiveMinutes

\* C28: after ensurePermissions() has completed a successful refresh, every
\* further ensurePermissions() call made less than five minutes later, with no
\* save or clear of the record in between, sends no request and returns the
\* snapshot stored by that refresh.
C28_Amortised ==
    [][\A p \in Procs :
         (proc[p].pc # "idle" /\ proc[p].op = "ensurePermissions" /\ RefreshedByEnsure
            /\ NonEmptyToken) =>
            /\ StepsFrom(p, "ensure") => proc'[p].pc = "ensureDecide"
            /\ StepsFrom(p, "ensureDecide") =>
                  /\ proc'[p].pc = "idle"
                  /\ last' = Call("ensurePermissions", <<>>, Ret(lastWrite.arg))
                  /\ file' = file]_vars

\* C28 witness: some minutes after the refresh of an ensurePermissions call, a
\* further call has returned the list of that refresh without a request.
C28_Witness ==
    /\ RefreshedByEnsure
    /\ now > lastWrite.at
    /\ lastWrite.arg = Arr(<<MemberEntry, WildcardEntry>>)
    /\ last = Call("ensurePermissions", <<>>, Ret(lastWrite.arg))

\* An ensurePermissions() call made now would send a request, whatever the
\* environment.
WouldRequest ==
    /\ ~ensureBegin(file).done
    /\ ~ensureDecide(file, now, ensureBegin(file).creds).done
    /\ \A env \in ApiUrlSettings : ~refreshBegin(file, now, env).done

\* C29: under an outage a failed refresh leaves the stale snapshot and the old
\* or absent permissionsUpdatedAt in place, so permissionsNeedRefresh() stays
\* true and every later ensurePermissions() call of an authenticated user sends
\* a new request, with no back-off, until a refresh succeeds.
C29_RetryEveryCall ==
    /\ [][/\ \A p \in Procs :
               (Settles(p) /\ ~SuccessStatus(Settled)) => file' = file
          /\ (file' = file /\ Stale) => Stale']_vars
    /\ [](Stale =>
            /\ permissionsNeedRefresh(file, now) = Ret(Bool(TRUE))
            /\ Authenticated => WouldRequest)

\* C29 witness: an ensurePermissions call of an authenticated user has failed
\* on a transport failure, the snapshot of six minutes ago is still in place
\* and a further call would send a request.
C29_Witness ==
    /\ last = Call("ensurePermissions", <<Rejected>>, Ret(EmptyList))
    /\ Authenticated
    /\ Present("permissions")
    /\ SnapshotOlderThan(FiveMinutes)
    /\ WouldRequest

\* The permission lists that have been issued: by the server, or with a saved
\* record.
IssuedLists ==
    {Arr(list) : list \in RaceLists}
      \cup {Get(r, "permissions") : r \in {c \in RaceRecords : "permissions" \in DOMAIN c.props}}

\* C30: concurrent refreshes are not coordinated and the last writer wins: two
\* processes that both see a stale snapshot each send their own request, and
\* after every interleaving the stored permissions list is exactly one of the
\* lists of the server, whole, the one written last, never a merge or mixture.
C30_LastWriterWins ==
    /\ [][\A p \in DOMAIN proc :
            (Settles(p) /\ SuccessStatus(Settled) /\ PermissionsBody(Settled)
               /\ RecordLoads) =>
               Field("permissions")' = Settled.body.value.props["permissions"]]_vars
    /\ [](Present("permissions") =>
            /\ Field("permissions") \in IssuedLists
            /\ lastWrite.op = "updatePermissions" => Field("permissions") = lastWrite.arg)

\* C30 witness: one process has just written the list of its refresh while the
\* other, which saw the stale snapshot too, still has its own request in
\* flight.
C30_Witness ==
    /\ last.op = "ensurePermissions"
    /\ last.args # <<>>
    /\ lastWrite.op = "updatePermissions"
    /\ lastWrite.arg = Arr(<<MemberEntry, WildcardEntry>>)
    /\ Field("permissions") = lastWrite.arg
    /\ \E q \in DOMAIN proc :
          proc[q].pc = "awaiting" /\ proc[q].op = "ensurePermissions"

-----------------------------------------------------------------------------
(* The write-back: what it leaves alone, what it can lose *)

\* The fields of a record that say who is logged in and until when.
SessionFields ==
    {"accessToken", "refreshToken", "expiresAt", "email", "userId", "provider"}

\* C34: updatePermissions changes only permissions and permissionsUpdatedAt:
\* accessToken, refreshToken, expiresAt, email, userId and provider are after
\* the call what the call loaded, present or absent alike, and so
\* isAuthenticated() answers after the call what it answered before it.
C34_OnlyPermissionsChange ==
    [][(last'.op = "updatePermissions" /\ RecordLoads) =>
          /\ \A k \in SessionFields :
                /\ Present(k)' = Present(k)
                /\ Field(k)' = Field(k)
          /\ (DOMAIN Stored.props)' = DOMAIN Stored.props \cup {"permissions", "permissionsUpdatedAt"}
          /\ isAuthenticated(file', now') = isAuthenticated(file, now)]_vars

\* C34 witness: updatePermissions has written a list into a record that holds
\* a token, an expiry still ahead and an e-mail address, all three still there.
C34_Witness ==
    /\ last.op = "updatePermissions"
    /\ Field("permissions") = Arr(<<MemberEntry, WildcardEntry>>)
    /\ Field("accessToken") = Str("tokA")
    /\ (ExpiryAhead \/ Field("email") = IdentityFields.email)
    /\ Authenticated

\* The call of p writes back the record it has loaded.
Saves(p) == proc[p].pc = "saving" /\ proc'[p].pc = "idle"

\* C31: a write of another process (a new login) between the refresher's load
\* and its save can be lost: the save writes the record the refresher loaded,
\* with the fetched list, whatever the file holds by then, so that nothing of
\* a record written in between is in the file afterwards.
C31_LostUpdate ==
    [][\A p \in Procs :
         Saves(p) =>
            /\ RecordLoads'
            /\ (DOMAIN Stored.props)' =
                  DOMAIN proc[p].creds.props \cup {"permissions", "permissionsUpdatedAt"}
            /\ \A k \in DOMAIN proc[p].creds.props \ {"permissions", "permissionsUpdatedAt"} :
                  Field(k)' = proc[p].creds.props[k]
            /\ Field("permissions")' = proc[p].permissions]_vars

\* C31 witness: ensurePermissions found the record of tokA stale and refreshed
\* it; when it saved, the file held the record of a login with tokB, and now
\* holds tokA without an expiry: the login is lost.
C31_Witness ==
    /\ lastWrite.op = "updatePermissions"
    /\ lastWrite.by = "ensurePermissions"
    /\ "overwrote" \in DOMAIN lastWrite
    /\ lastWrite.overwrote = Ret(Obj([accessToken |-> Str("tokB"), expiresAt |-> Minute(3)]))
    /\ last.op = "ensurePermissions"
    /\ Field("accessToken") = Str("tokA")
    /\ ~Present("expiresAt")
    /\ Field("permissions") = Arr(<<MemberEntry, WildcardEntry>>)

\* C33: updatePermissions never creates a record. Called with no file it
\* writes nothing; a response that settles when the file is gone (the record
\* was cleared while the request was in flight) ends the call there, with the
\* fetched list as its result, the file still absent and isAuthenticated()
\* false; and an absent file comes into being only by saveCredentials, or by
\* the save of a record that a write-back had loaded before the file went.
C33_NeverCreates ==
    [][/\ (last'.op = "updatePermissions" /\ ~file.exists) =>
             file' = file /\ last'.result = Ret(Undefined)
       /\ \A p \in Procs :
             (proc[p].pc = "awaiting" /\ proc'[p].pc # "awaiting" /\ ~file.exists) =>
                /\ proc'[p].pc = "idle"
                /\ file' = file
                /\ isAuthenticated(file', now') = Ret(Bool(FALSE))
                /\ (SuccessStatus(Settled) /\ PermissionsBody(Settled)) =>
                      last'.result = Ret(Settled.body.value.props["permissions"])
       /\ (~file.exists /\ file'.exists) =>
             \/ last'.op = "saveCredentials"
             \/ \E p \in Procs : Saves(p)]_vars

\* C33 witness: the record was cleared after the request was sent; the call
\* has returned the two fetched entries and there is no file.
C33_Witness ==
    /\ ~file.exists
    /\ lastWrite.op = "clearCredentials"
    /\ last.op \in {"refreshPermissions", "ensurePermissions"}
    /\ last.result = Ret(Arr(<<MemberEntry, WildcardEntry>>))
    /\ isAuthenticated(file, now) = Ret(Bool(FALSE))

\* The token the request of p carries.
Bearer(p) == proc[p].request.headers.Authorization[2]

\* C35: updatePermissions loads the record again after the network call, so a
\* write of another process that completed while the request was in flight
\* (a renewal changing accessToken and expiresAt) is kept: the record loaded
\* for the write-back is the one in the file when the response settles, not
\* the one the request was made from, and the write-back of it keeps its
\* fields and puts the fetched list beside them.
C35_InFlightWriteKept ==
    [][\A p \in Procs :
         /\ (proc[p].pc = "awaiting" /\ proc'[p].pc = "saving") =>
               /\ RecordLoads
               /\ proc'[p].creds = Stored
         /\ (Saves(p) /\ RecordLoads /\ Stored = proc[p].creds) =>
               /\ \A k \in DOMAIN Stored.props \ {"permissions", "permissionsUpdatedAt"} :
                     Field(k)' = Field(k)
               /\ \A k \in SessionFields : Present(k)' = Present(k)
               /\ Field("permissions")' = proc[p].permissions
               /\ last'.result = Ret(proc[p].permissions)]_vars

\* C35 witness: a request made with tokA has come back and its two entries are
\* stored, beside the tokB and the expiry that the file held when they were
\* written: the renewal made during the flight is in the final record.
C35_Witness ==
    /\ lastWrite.op = "updatePermissions"
    /\ "bearer" \in DOMAIN lastWrite
    /\ lastWrite.bearer = Str("tokA")
    /\ lastWrite.overwrote = Ret(Obj([accessToken |-> Str("tokB"), expiresAt |-> Minute(3)]))
    /\ Field("accessToken") = Str("tokB")
    /\ Field("expiresAt") = Minute(3)
    /\ Field("permissions") = Arr(<<MemberEntry, WildcardEntry>>)
    /\ last.result = Ret(Arr(<<MemberEntry, WildcardEntry>>))

\* C36: the stored permissions list was issued by the server for the
\* accessToken stored in the same record: when the file is as a refresh wrote
\* it, the token in it is the token the request of that refresh carried, so
\* that a list fetched under the token of a previous login is never written
\* into the record of a new one.
C36_PermissionsOfStoredToken ==
    (/\ lastWrite.op = "updatePermissions"
     /\ "bearer" \in DOMAIN lastWrite
     /\ RecordLoads
     /\ Present("permissions")) =>
        Field("accessToken") = lastWrite.bearer

\* C37: from the records a login creates (no permissions), through every
\* sequence of updatePermissions, refreshPermissions, ensurePermissions,
\* clearCredentials and new logins, a stored record that has a permissions
\* list has a permissionsUpdatedAt too, which is an instant and is not later
\* than the current clock.
C37_StampedNotAhead ==
    Present("permissions") =>
        /\ Present("permissionsUpdatedAt")
        /\ Instants("permissionsUpdatedAt") # {}
        /\ \A stamp \in Instants("permissionsUpdatedAt") : stamp <= now

\* C37 witness: a refresh stored two entries at minute one and the clock has
\* gone on to minute three.
C37_Witness ==
    /\ Field("permissions") = Arr(<<MemberEntry, WildcardEntry>>)
    /\ lastWrite.op = "updatePermissions"
    /\ lastWrite.by \in {"refreshPermissions", "ensurePermissions"}
    /\ Instants("permissionsUpdatedAt") = {MsPerMinute}
    /\ now = 3 * MsPerMinute

-----------------------------------------------------------------------------
(* Termination *)

\* Every request made is settled in the end, by a response or a rejection.
RequestsSettle ==
    \A p \in Procs : WF_vars(\E response \in Responses : RefreshFinish(p, response))

\* The value returned is a list.
ReturnsList(result) == result.kind = "return" /\ result.value.t = "array"

\* C32: ensurePermissions() and refreshPermissions() have no timeout and no
\* cancellation. A call waiting for its request goes on only when the request
\* settles, by a response or a rejection, and then returns at once; the
\* passing of time and the writes of others leave it waiting. Every call that
\* ends returns a list; and if every request settles in the end, every call
\* ends.
C32_NoTimeout ==
    /\ [][\A p \in Procs :
            /\ (proc[p].pc = "awaiting" /\ proc'[p].pc # "awaiting") =>
                  /\ proc'[p].pc = "idle"
                  /\ last'.op = proc[p].op
                  /\ last'.args # <<>>
                  /\ Settled \in Responses
            /\ (proc[p].pc = "awaiting" /\ last'.op \in {"tick", "saveCredentials", "clearCredentials"}) =>
                  proc'[p].pc = "awaiting"
            /\ (proc[p].pc # "idle" /\ proc'[p].pc = "idle") => ReturnsList(last'.result)]_vars
    /\ RequestsSettle => \A p \in Procs : (proc[p].pc # "idle") ~> (proc[p].pc = "idle")

\* C32 witness: the clock is at its last minute and the call, which has sent
\* its request, is still waiting for it.
C32_Witness ==
    /\ \E p \in Procs : proc[p].pc = "awaiting" /\ proc[p].op = "ensurePermissions"
    /\ last.op = "tick"
    /\ now = MaxNow * MsPerMinute

====
